---------------------------- MODULE Spec2Model ----------------------------
(***************************************************************************)
(* Model of the TWS bridge: the option-chain fetch of                      *)
(* src/option_chain_ibapi.py (OptionChainApp callbacks and                 *)
(* get_option_chain_ibapi) and the bracket-order placement of              *)
(* src/tws_bridge.py (place_order).                                        *)
(*                                                                         *)
(* Money is fixed point.  Option quotes are in cents.  Strikes and the     *)
(* underlying's price share one unit in which every strike is even, so a   *)
(* price can lie exactly half way between two neighbouring strikes.        *)
(* A float is a record: Num(v) for the number v, NaN for not-a-number.     *)
(***************************************************************************)
EXTENDS Integers, Sequences, FiniteSets, TLC

VARIABLES
    pc,                 \* position of the foreground call
    connected,          \* EClient connection of the OptionChainApp
    pending_requests,   \* OptionChainApp.pending_requests
    data_ready,         \* OptionChainApp.data_ready (threading.Event flag)
    contract_details,   \* OptionChainApp.contract_details
    option_params,      \* OptionChainApp.option_params
    option_data,        \* OptionChainApp.option_data: reqId -> bucket
    current_price,      \* local of get_option_chain_ibapi
    expirations,        \* local: primary_params['expirations']
    all_strikes,        \* local: primary_params['strikes']
    nearest_expiry,     \* local
    today,              \* local: datetime.now() as a day
    selected_strikes,   \* local
    req_id,             \* local: next request id of the per-strike loops
    option_chain_data,  \* local: the rows built so far
    waited,             \* time units spent in the current data_ready.wait
    subscribed,         \* venue side: market-data request ids subscribed
    contracts,          \* venue side: the contract each id was subscribed with
    requested,          \* venue side: completion-tracked request ids sent
    error_log,          \* stderr: the <<id, code>> pairs OptionChainApp.error printed
    result,             \* what the call returned; NoResult while it runs
    action,             \* place_order argument: BUY or SELL
    quantity,           \* place_order argument
    stop_loss_pct,      \* place_order argument, known once the call reads it
    take_profit_pct,    \* place_order argument, known once the call reads it
    qualified,          \* venue side: the contract was qualified
    trade,              \* the parent order's Trade: status, fills, avgFillPrice
    elapsed,            \* time.time() - start_time, in sleeps of 0.5
    fill_price,         \* local of place_order
    sl_order,           \* local: the stop-loss child, NoOrder if none
    tp_order,           \* local: the take-profit child, NoOrder if none
    children,           \* venue side: the child orders placed, in order
    market_open,        \* what is_market_open() answers during the call
    command,            \* handle_command argument: type, requestId, data
    stdout              \* the responses printed to stdout, in order

\* fields of the OptionChainApp
appVars == <<pending_requests, data_ready, contract_details, option_params,
             option_data>>

\* locals of get_option_chain_ibapi
localVars == <<current_price, expirations, all_strikes, nearest_expiry, today,
               selected_strikes, req_id, option_chain_data>>

\* what the venue has been asked for
venueVars == <<subscribed, contracts, requested, error_log>>

chainVars == <<pc, connected, appVars, localVars, waited, venueVars, result>>

\* arguments of place_order
argVars == <<action, quantity, stop_loss_pct, take_profit_pct>>

\* locals of place_order and what the venue holds of its orders
orderVars == <<argVars, qualified, trade, elapsed, fill_price, sl_order,
               tp_order, children, market_open>>

\* handle_command: the command being handled and what was written to stdout
bridgeVars == <<command, stdout>>

vars == <<chainVars, orderVars, bridgeVars>>

---------------------------------------------------------------------------
(* Bounds of the model *)

\* strikes are drawn from the grid 2, 4, ..., 2 * MaxStrikes
MaxStrikes == 13

\* contractDetails callbacks the venue sends for one request
MaxDetails == 1

\* quantity of the parent order: 1..MaxQuantity
MaxQuantity == 2

\* executions the venue reports for the parent order
MaxFills == 2

\* securityDefinitionOptionParameter callbacks the venue sends for one request
MaxParamSets == 2

---------------------------------------------------------------------------
(* Floats *)

Num(v) == [k |-> "num", v |-> v]

NaN == [k |-> "nan", v |-> 0]

\* Python's None where a float is expected
None == [k |-> "none", v |-> 0]

IsNaN(x) == x.k = "nan"

\* Python truthiness: None and 0.0 are false, NaN is true
Truthy(x) == IsNaN(x) \/ (x.k = "num" /\ x.v # 0)

\* a or b
PyOr(a, b) == IF Truthy(a) THEN a ELSE b

Abs(n) == IF n < 0 THEN -n ELSE n

\* round(n / d) for integers n and d > 0: Python 3 rounds a tie to the even
\* neighbour
RoundDiv(n, d) ==
    LET q == n \div d
        r == n % d
    IN  IF 2 * r < d THEN q
        ELSE IF 2 * r > d THEN q + 1
        ELSE IF q % 2 = 0 THEN q ELSE q + 1

---------------------------------------------------------------------------
(* Lists *)

RECURSIVE InsertAsc(_, _)
InsertAsc(x, s) ==
    IF s = <<>> THEN <<x>>
    ELSE IF x < Head(s) THEN <<x>> \o s
    ELSE <<Head(s)>> \o InsertAsc(x, Tail(s))

\* sorted(list)
RECURSIVE sorted(_)
sorted(s) == IF s = <<>> THEN <<>> ELSE InsertAsc(Head(s), sorted(Tail(s)))

RECURSIVE InsertDesc(_, _)
InsertDesc(x, s) ==
    IF s = <<>> THEN <<x>>
    ELSE IF x > Head(s) THEN <<x>> \o s
    ELSE <<Head(s)>> \o InsertDesc(x, Tail(s))

\* sorted(list, reverse=True)
RECURSIVE sorted_reverse(_)
sorted_reverse(s) ==
    IF s = <<>> THEN <<>> ELSE InsertDesc(Head(s), sorted_reverse(Tail(s)))

\* list(a_set), in some order, then sorted
RECURSIVE SortedOfSet(_)
SortedOfSet(S) ==
    IF S = {} THEN <<>>
    ELSE LET x == CHOOSE y \in S : TRUE
         IN  InsertAsc(x, SortedOfSet(S \ {x}))

\* list[start:end] with 0 <= start, end <= len(list) (Python's 0-based slice)
Slice(s, start, end) == SubSeq(s, start + 1, end)

Min2(a, b) == IF a < b THEN a ELSE b

Max2(a, b) == IF a > b THEN a ELSE b


---------------------------------------------------------------------------
(* place_order: data *)

\* a percentage argument: the text "--", the empty text, a text float()
\* rejects, or the text of the number v
Dashes == [kind |-> "dashes", v |-> 0]

Empty == [kind |-> "empty", v |-> 0]

Malformed == [kind |-> "malformed", v |-> 0]

\* the texts "nan" and "inf": float() accepts them
NotANumber == [kind |-> "nan", v |-> 0]

Infinite == [kind |-> "inf", v |-> 0]

Pct(v) == [kind |-> "num", v |-> v]

\* an argument the call has not read yet
Unread == [kind |-> "unread", v |-> 0]

\* no Order object (None)
NoOrder == [orderType |-> "none"]

\* no Trade yet
NoTrade == [status |-> "none", fills |-> <<>>, avgFillPrice |-> 0]

\* a price as the exact fraction n / d of a cent, d > 0
Frac(n, d) == [n |-> n, d |-> d]

\* fill_price = None
NoPrice == [n |-> 0, d |-> 0]

\* no command is being handled
NoCommand == [type |-> "", requestId |-> None, data |-> "absent"]

BridgeIdle ==
    /\ command = NoCommand
    /\ stdout = <<>>

\* the state of the place_order variables while no order is being placed
OrderIdle ==
    /\ action = "BUY"
    /\ quantity = 1
    /\ stop_loss_pct = Unread
    /\ take_profit_pct = Unread
    /\ qualified = FALSE
    /\ trade = NoTrade
    /\ elapsed = 0
    /\ fill_price = NoPrice
    /\ sl_order = NoOrder
    /\ tp_order = NoOrder
    /\ children = <<>>
    /\ market_open = FALSE

---------------------------------------------------------------------------
(* Program constants *)

\* request id of the underlying's price subscription
PriceReqId == 1

\* request id of the contract-details request
DetailsReqId == 99

\* request id of the option-parameter request
ParamsReqId == 100

\* first request id of the per-strike subscriptions
FirstOptionReqId == 2000

\* strikes taken on each side of the nearest strike
HalfWindow == 6

\* size of the strike window
WindowSize == 12

\* timeout of data_ready.wait
ParamTimeout == 10

\* seconds place_order waits for the parent order to be done
FillTimeout == 30

\* sleeps of ib.sleep(0.5) in one second
SleepsPerSecond == 2

\* round_to_tick: prices below 3.00 (in cents) use the small tick
TickThreshold == 300

\* the small and the large tick, in cents
TickSizeLow == 5

TickSizeHigh == 10

\* the symbol asked for
Ticker == "SPY"

---------------------------------------------------------------------------
(* Tick buckets: a bucket is a function from the keys present to floats *)

EmptyBucket == [key \in {} |-> Num(0)]

\* dict.get(key, default)
DictGet(d, key, default) == IF key \in DOMAIN d THEN d[key] ELSE default

\* d[key] = value
DictSet(d, key, value) ==
    [x \in DOMAIN d \cup {key} |-> IF x = key THEN value ELSE d[x]]

\* safe_get of the reduction: the default 0 for an absent or NaN value
safe_get(d, key) ==
    LET val == DictGet(d, key, Num(0))
    IN  IF IsNaN(val) THEN Num(0) ELSE val

\* round((bid + ask) / 2, 2) if bid and ask else 0, in cents
MidPrice(bid, ask) ==
    IF Truthy(bid) /\ Truthy(ask) THEN Num(RoundDiv(bid.v + ask.v, 2))
    ELSE Num(0)

\* round(iv * 100, 2) if iv else 0: iv in units of 1e-5, the row's in 1e-4
IVPercent(iv) == IF Truthy(iv) THEN Num(RoundDiv(iv.v, 10)) ELSE Num(0)

\* round(x, 3) for delta and theta: x in units of 1e-4, the row's in 1e-3
Round3(x) == Num(RoundDiv(x.v, 10))

\* one row of the chain, from the call's and the put's bucket
StrikeRow(strike, expiry, call_data, put_data) ==
    [strike    |-> strike,
     expiryRaw |-> expiry,
     callMid   |-> MidPrice(safe_get(call_data, "bid"), safe_get(call_data, "ask")),
     callIV    |-> IVPercent(safe_get(call_data, "iv")),
     callDelta |-> Round3(safe_get(call_data, "delta")),
     callTheta |-> Round3(safe_get(call_data, "theta")),
     putMid    |-> MidPrice(safe_get(put_data, "bid"), safe_get(put_data, "ask")),
     putIV     |-> IVPercent(safe_get(put_data, "iv")),
     putDelta  |-> Round3(safe_get(put_data, "delta")),
     putTheta  |-> Round3(safe_get(put_data, "theta"))]

---------------------------------------------------------------------------
(* OptionChainApp callbacks, run by the thread of app.run *)

\* error codes that are not printed: market data connection messages
IgnoredErrorCodes == {2104, 2106, 2158}

\* stderr after the print of error(): nothing for an ignored code
Printed(log, reqId, errorCode) ==
    IF errorCode \notin IgnoredErrorCodes THEN log \cup {<<reqId, errorCode>>}
    ELSE log

\* mutant: an error releases the request it names, as its End callback does
error_Releases(reqId, errorCode) ==
    /\ error_log' = Printed(error_log, reqId, errorCode)
    /\ pending_requests' = pending_requests \ {reqId}
    /\ data_ready' = IF reqId \in pending_requests /\ pending_requests' = {}
                     THEN TRUE ELSE data_ready
    /\ UNCHANGED <<contract_details, option_params, option_data>>

\* error: the message is printed unless the code is ignored; the request
\* set and the signal are not touched
error(reqId, errorCode) ==
    /\ error_log' = Printed(error_log, reqId, errorCode)
    /\ UNCHANGED <<pending_requests, data_ready, contract_details, option_params,
                   option_data>>

\* contractDetails: the details are appended whatever the request id
contractDetails(reqId, conId) ==
    /\ contract_details' = Append(contract_details, conId)
    /\ UNCHANGED <<pending_requests, data_ready, option_params, option_data>>

\* mutant: the id is removed and the signal set without the membership test
contractDetailsEnd_NoGuard(reqId) ==
    /\ pending_requests' = pending_requests \ {reqId}
    /\ data_ready' = IF pending_requests' = {} THEN TRUE ELSE data_ready
    /\ UNCHANGED <<contract_details, option_params, option_data>>

contractDetailsEnd(reqId) ==
    /\ IF reqId \in pending_requests
       THEN /\ pending_requests' = pending_requests \ {reqId}
            /\ data_ready' = IF pending_requests' = {} THEN TRUE ELSE data_ready
       ELSE UNCHANGED <<pending_requests, data_ready>>
    /\ UNCHANGED <<contract_details, option_params, option_data>>

\* securityDefinitionOptionParameter: one parameter set, its lists sorted
securityDefinitionOptionParameter(reqId, tradingClass, exps, strikes) ==
    /\ option_params' = Append(option_params,
                               [tradingClass |-> tradingClass,
                                expirations  |-> SortedOfSet(exps),
                                strikes      |-> SortedOfSet(strikes)])
    /\ UNCHANGED <<pending_requests, data_ready, contract_details, option_data>>

securityDefinitionOptionParameterEnd(reqId) ==
    /\ IF reqId \in pending_requests
       THEN /\ pending_requests' = pending_requests \ {reqId}
            /\ data_ready' = IF pending_requests' = {} THEN TRUE ELSE data_ready
       ELSE UNCHANGED <<pending_requests, data_ready>>
    /\ UNCHANGED <<contract_details, option_params, option_data>>

\* the key tickPrice writes for a tick type: 1 bid, 2 ask, 4 last
PriceKey(tickType) ==
    IF tickType = 1 THEN "bid"
    ELSE IF tickType = 2 THEN "ask"
    ELSE IF tickType = 4 THEN "last"
    ELSE "none"

\* option_data after tickPrice: the bucket is made for any tick type, the
\* price is stored as it comes for bid, ask and last
tickPrice(reqId, tickType, price) ==
    /\ LET bucket == DictGet(option_data, reqId, EmptyBucket)
       IN  option_data' =
              DictSet(option_data, reqId,
                      IF PriceKey(tickType) = "none" THEN bucket
                      ELSE DictSet(bucket, PriceKey(tickType), price))
    /\ UNCHANGED <<pending_requests, data_ready, contract_details, option_params>>

\* tickSize: the bucket is made for any tick type, the size kept for 8
tickSize(reqId, tickType, size) ==
    /\ LET bucket == DictGet(option_data, reqId, EmptyBucket)
       IN  option_data' =
              DictSet(option_data, reqId,
                      IF tickType = 8 THEN DictSet(bucket, "volume", size)
                      ELSE bucket)
    /\ UNCHANGED <<pending_requests, data_ready, contract_details, option_params>>

\* tickGeneric: the value is stored as it comes under iv for tick type 24
tickGeneric(reqId, tickType, value) ==
    /\ LET bucket == DictGet(option_data, reqId, EmptyBucket)
       IN  option_data' =
              DictSet(option_data, reqId,
                      IF tickType = 24 THEN DictSet(bucket, "iv", value)
                      ELSE bucket)
    /\ UNCHANGED <<pending_requests, data_ready, contract_details, option_params>>

\* x > 0 of a float; false for NaN
Positive(x) == x.k = "num" /\ x.v > 0

\* tickOptionComputation: iv is kept if truthy and positive, delta and theta
\* if truthy and not NaN
tickOptionComputation(reqId, impliedVol, delta, theta) ==
    /\ LET bucket  == DictGet(option_data, reqId, EmptyBucket)
           withIV  == IF Truthy(impliedVol) /\ Positive(impliedVol)
                      THEN DictSet(bucket, "iv", impliedVol) ELSE bucket
           withDel == IF Truthy(delta) /\ ~IsNaN(delta)
                      THEN DictSet(withIV, "delta", delta) ELSE withIV
           withThe == IF Truthy(theta) /\ ~IsNaN(theta)
                      THEN DictSet(withDel, "theta", theta) ELSE withDel
       IN  option_data' = DictSet(option_data, reqId, withThe)
    /\ UNCHANGED <<pending_requests, data_ready, contract_details, option_params>>

---------------------------------------------------------------------------
(* Strike window *)

\* abs(strikes_list[i] - current_price); NaN when the price is NaN
StrikeDistance(strike, price) ==
    IF IsNaN(price) THEN NaN ELSE Num(Abs(strike - price.v))

\* a < b on floats: false when either is NaN
FloatLess(a, b) == ~IsNaN(a) /\ ~IsNaN(b) /\ a.v < b.v

\* min(range(len(list)), key=...): scan from index i with the best index so
\* far; a later index wins only with a strictly smaller key (0-based)
RECURSIVE MinScan(_, _, _, _)
MinScan(list, price, i, best) ==
    IF i >= Len(list) THEN best
    ELSE IF FloatLess(StrikeDistance(list[i + 1], price),
                      StrikeDistance(list[best + 1], price))
         THEN MinScan(list, price, i + 1, i)
         ELSE MinScan(list, price, i + 1, best)

\* mutant: the first index is taken whatever the price
ClosestIdx_First(list, price) == 0

ClosestIdx(list, price) == MinScan(list, price, 1, 0)

StartIdx(closest_idx) == Max2(0, closest_idx - HalfWindow)

\* mutant: the strike 6 places above the nearest is taken too
EndIdx_Inclusive(n, closest_idx) == Min2(n, closest_idx + HalfWindow + 1)

EndIdx(n, closest_idx) == Min2(n, closest_idx + HalfWindow)

\* mutant: the clamped window is not extended on the side that has room
StrikeWindow_NoExtend(n, closest_idx) ==
    <<StartIdx(closest_idx), EndIdx(n, closest_idx)>>

\* the window <<start_idx, end_idx>> over a list of n strikes
StrikeWindow(n, closest_idx) ==
    LET start_idx == StartIdx(closest_idx)
        end_idx   == EndIdx(n, closest_idx)
    IN  IF end_idx - start_idx < WindowSize
        THEN IF start_idx = 0
             THEN <<start_idx, Min2(n, start_idx + WindowSize)>>
             ELSE IF end_idx = n
                  THEN <<Max2(0, end_idx - WindowSize), end_idx>>
                  ELSE <<start_idx, end_idx>>
        ELSE <<start_idx, end_idx>>

\* mutant: the selected strikes are left in ascending order
SelectedStrikes_Ascending(strikes, price) ==
    LET strikes_list == sorted(strikes)
        w == StrikeWindow(Len(strikes_list), ClosestIdx(strikes_list, price))
    IN  Slice(strikes_list, w[1], w[2])

\* selected_strikes for a non-empty strike list
SelectedStrikes(strikes, price) ==
    LET strikes_list == sorted(strikes)
        w == StrikeWindow(Len(strikes_list), ClosestIdx(strikes_list, price))
    IN  sorted_reverse(Slice(strikes_list, w[1], w[2]))

---------------------------------------------------------------------------
(* Results *)

NoResult == [returned |-> FALSE]

ChainFailure(message) ==
    [returned |-> TRUE, success |-> FALSE, message |-> message,
     optionChain |-> <<>>]

ChainSuccess(rows, price) ==
    [returned |-> TRUE, success |-> TRUE, message |-> "Option chain",
     optionChain |-> rows, currentPrice |-> price]

---------------------------------------------------------------------------
(* get_option_chain_ibapi, from the strike selection on *)

\* the contracts of the market-data requests: the stock, and an option of
\* the ticker by strike, right and expiration
StockContract == [secType |-> "STK", strike |-> 0, right |-> "", expiry |-> 0]

OptionContract(strike, right) ==
    [secType |-> "OPT", strike |-> strike, right |-> right,
     expiry |-> nearest_expiry]

NoContracts == [id \in {} |-> StockContract]

\* the venue's subscriptions after app.reqMktData(reqId, contract, ...)
reqMktData(subs, reqId, contract) ==
    [id \in DOMAIN subs \cup {reqId} |-> IF id = reqId THEN contract ELSE subs[id]]

\* except Exception: the failure result, without disconnecting
ChainExcept ==
    /\ result' = ChainFailure("Failed to get option chain")
    /\ pc' = "done"

\* position in selected_strikes of the loop iteration that uses req_id
LoopIndex == (req_id - FirstOptionReqId) \div 2 + 1

\* strike selection; min() of an empty range raises ValueError
SelectStrikes ==
    /\ pc = "select"
    /\ IF all_strikes = <<>>
       THEN /\ ChainExcept
            /\ UNCHANGED <<selected_strikes, req_id, option_chain_data>>
       ELSE /\ selected_strikes' = SelectedStrikes(all_strikes, current_price)
            /\ option_chain_data' = <<>>
            /\ req_id' = FirstOptionReqId
            /\ pc' = "subscribe"
            /\ UNCHANGED result
    /\ UNCHANGED <<bridgeVars, orderVars, connected, appVars, current_price, expirations, all_strikes,
                   nearest_expiry, today, waited, venueVars>>

\* one iteration of the subscription loop: the call's and the put's request
SubscribeStrike ==
    /\ pc = "subscribe"
    /\ LoopIndex <= Len(selected_strikes)
    /\ subscribed' = subscribed \cup {req_id, req_id + 1}
    /\ contracts' = reqMktData(reqMktData(contracts, req_id,
                                          OptionContract(selected_strikes[LoopIndex], "C")),
                               req_id + 1,
                               OptionContract(selected_strikes[LoopIndex], "P"))
    /\ req_id' = req_id + 2
    /\ UNCHANGED <<bridgeVars, orderVars, pc, connected, appVars, current_price, expirations,
                   all_strikes, nearest_expiry, today, selected_strikes,
                   option_chain_data, waited, requested, error_log, result>>

\* time.sleep(3) after the last subscription, then the build loop starts
Settle ==
    /\ pc = "subscribe"
    /\ LoopIndex > Len(selected_strikes)
    /\ req_id' = FirstOptionReqId
    /\ pc' = "reduce"
    /\ UNCHANGED <<bridgeVars, orderVars, connected, appVars, current_price, expirations, all_strikes,
                   nearest_expiry, today, selected_strikes, option_chain_data,
                   waited, venueVars, result>>

\* mutant: a strike without any bucket gets no row
ReduceStrike_SkipMissing ==
    /\ pc = "reduce"
    /\ LoopIndex <= Len(selected_strikes)
    /\ option_chain_data' =
          IF {req_id, req_id + 1} \cap DOMAIN option_data = {}
          THEN option_chain_data
          ELSE Append(option_chain_data,
                      StrikeRow(selected_strikes[LoopIndex], nearest_expiry,
                                DictGet(option_data, req_id, EmptyBucket),
                                DictGet(option_data, req_id + 1, EmptyBucket)))
    /\ req_id' = req_id + 2
    /\ UNCHANGED <<bridgeVars, orderVars, pc, connected, appVars, current_price, expirations,
                   all_strikes, nearest_expiry, today, selected_strikes, waited,
                   venueVars, result>>

\* one iteration of the build loop
\* mutant: the put side of the row is read from the call's bucket
ReduceStrike_CallBucketTwice ==
    /\ pc = "reduce"
    /\ LoopIndex <= Len(selected_strikes)
    /\ option_chain_data' =
          Append(option_chain_data,
                 StrikeRow(selected_strikes[LoopIndex], nearest_expiry,
                           DictGet(option_data, req_id, EmptyBucket),
                           DictGet(option_data, req_id, EmptyBucket)))
    /\ req_id' = req_id + 2
    /\ UNCHANGED <<bridgeVars, orderVars, pc, connected, appVars, current_price, expirations,
                   all_strikes, nearest_expiry, today, selected_strikes, waited,
                   venueVars, result>>

ReduceStrike ==
    /\ pc = "reduce"
    /\ LoopIndex <= Len(selected_strikes)
    /\ option_chain_data' =
          Append(option_chain_data,
                 StrikeRow(selected_strikes[LoopIndex], nearest_expiry,
                           DictGet(option_data, req_id, EmptyBucket),
                           DictGet(option_data, req_id + 1, EmptyBucket)))
    /\ req_id' = req_id + 2
    /\ UNCHANGED <<bridgeVars, orderVars, pc, connected, appVars, current_price, expirations,
                   all_strikes, nearest_expiry, today, selected_strikes, waited,
                   venueVars, result>>

\* disconnect and return the rows
Finish ==
    /\ pc = "reduce"
    /\ LoopIndex > Len(selected_strikes)
    /\ connected' = FALSE
    /\ result' = ChainSuccess(option_chain_data, current_price)
    /\ pc' = "done"
    /\ UNCHANGED <<bridgeVars, orderVars, appVars, localVars, waited, venueVars>>

---------------------------------------------------------------------------
(* get_option_chain_ibapi, up to the strike selection *)

\* app.disconnect() and return of a failure result
FailDisconnected(message) ==
    /\ connected' = FALSE
    /\ result' = ChainFailure(message)
    /\ pc' = "done"

\* OptionChainApp(), app.connect, the thread start and time.sleep(1)
Connect ==
    /\ pc = "connect"
    /\ connected' = TRUE
    /\ pc' = "req_price"
    /\ UNCHANGED <<bridgeVars, orderVars, appVars, localVars, waited, venueVars, result>>

\* app.reqMktData(1, stock_contract, ...)
ReqPrice ==
    /\ pc = "req_price"
    /\ subscribed' = subscribed \cup {PriceReqId}
    /\ contracts' = reqMktData(contracts, PriceReqId, StockContract)
    /\ pc' = "read_price"
    /\ UNCHANGED <<bridgeVars, orderVars, connected, appVars, localVars, waited, requested,
                   error_log, result>>

\* mutant: the first of last, bid, ask that is in the bucket, zero or not
PriceOf_Recorded(data) ==
    LET bucket == DictGet(data, PriceReqId, EmptyBucket)
    IN  IF "last" \in DOMAIN bucket THEN bucket["last"]
        ELSE IF "bid" \in DOMAIN bucket THEN bucket["bid"]
        ELSE IF "ask" \in DOMAIN bucket THEN bucket["ask"]
        ELSE None

\* last or bid or ask of the price bucket, None without a bucket
PriceOf(data) ==
    IF PriceReqId \in DOMAIN data
    THEN PyOr(PyOr(DictGet(data[PriceReqId], "last", None),
                   DictGet(data[PriceReqId], "bid", None)),
              DictGet(data[PriceReqId], "ask", None))
    ELSE None

\* mutant: the call goes on without a price
ReadPrice_NoReturn ==
    /\ pc = "read_price"
    /\ current_price' = PriceOf(option_data)
    /\ pc' = "details_clear"
    /\ UNCHANGED <<connected, result>>
    /\ UNCHANGED <<bridgeVars, orderVars, appVars, expirations, all_strikes, nearest_expiry, today,
                   selected_strikes, req_id, option_chain_data, waited,
                   venueVars>>

\* after time.sleep(2): read the price, fail without one
ReadPrice ==
    /\ pc = "read_price"
    /\ current_price' = PriceOf(option_data)
    /\ IF Truthy(current_price')
       THEN /\ pc' = "details_clear"
            /\ UNCHANGED <<connected, result>>
       ELSE FailDisconnected("Could not get price")
    /\ UNCHANGED <<bridgeVars, orderVars, appVars, expirations, all_strikes, nearest_expiry, today,
                   selected_strikes, req_id, option_chain_data, waited,
                   venueVars>>

\* app.data_ready.clear() before the contract-details request
DetailsClear ==
    /\ pc = "details_clear"
    /\ data_ready' = FALSE
    /\ pc' = "details_reset"
    /\ UNCHANGED <<bridgeVars, orderVars, connected, pending_requests, contract_details,
                   option_params, option_data, localVars, waited, venueVars,
                   result>>

\* app.contract_details = []
DetailsReset ==
    /\ pc = "details_reset"
    /\ contract_details' = <<>>
    /\ pc' = "details_register"
    /\ UNCHANGED <<bridgeVars, orderVars, connected, pending_requests, data_ready, option_params,
                   option_data, localVars, waited, venueVars, result>>

\* app.pending_requests.add(99)
DetailsRegister ==
    /\ pc = "details_register"
    /\ pending_requests' = pending_requests \cup {DetailsReqId}
    /\ pc' = "req_details"
    /\ UNCHANGED <<bridgeVars, orderVars, connected, data_ready, contract_details, option_params,
                   option_data, localVars, waited, venueVars, result>>

\* app.reqContractDetails(99, stock_contract); the wait starts
ReqDetails ==
    /\ pc = "req_details"
    /\ requested' = requested \cup {DetailsReqId}
    /\ waited' = 0
    /\ pc' = "wait_details"
    /\ UNCHANGED <<bridgeVars, orderVars, connected, appVars, localVars, subscribed, contracts,
                   error_log,
                   result>>

\* a time unit passes in data_ready.wait(10) while the flag is not set
WaitTick ==
    /\ pc \in {"wait_details", "wait_params"}
    /\ ~data_ready
    /\ waited < ParamTimeout
    /\ waited' = waited + 1
    /\ UNCHANGED <<bridgeVars, orderVars, pc, connected, appVars, localVars, venueVars, result>>

\* data_ready.wait(10) returns: true with the flag set, false at the timeout
WaitDetails ==
    /\ pc = "wait_details"
    /\ data_ready \/ waited = ParamTimeout
    /\ IF data_ready
       THEN /\ pc' = "check_details"
            /\ UNCHANGED <<connected, result>>
       ELSE FailDisconnected("Timeout getting contract details")
    /\ UNCHANGED <<bridgeVars, orderVars, appVars, localVars, waited, venueVars>>

\* mutant: the contract list is not looked at
CheckDetails_Unchecked ==
    /\ pc = "check_details"
    /\ pc' = "params_clear"
    /\ UNCHANGED <<connected, result>>
    /\ UNCHANGED <<bridgeVars, orderVars, appVars, localVars, waited, venueVars>>

\* if not app.contract_details: fail; else the contract id is taken
CheckDetails ==
    /\ pc = "check_details"
    /\ IF contract_details = <<>>
       THEN FailDisconnected("Could not find contract")
       ELSE /\ pc' = "params_clear"
            /\ UNCHANGED <<connected, result>>
    /\ UNCHANGED <<bridgeVars, orderVars, appVars, localVars, waited, venueVars>>

\* mutant: the signal of the details request is left set
ParamsClear_Kept ==
    /\ pc = "params_clear"
    /\ pc' = "params_register"
    /\ UNCHANGED <<bridgeVars, orderVars, connected, pending_requests, data_ready,
                   contract_details, option_params, option_data, localVars,
                   waited, venueVars, result>>

\* app.data_ready.clear() before the option-parameter request
ParamsClear ==
    /\ pc = "params_clear"
    /\ data_ready' = FALSE
    /\ pc' = "params_register"
    /\ UNCHANGED <<bridgeVars, orderVars, connected, pending_requests, contract_details,
                   option_params, option_data, localVars, waited, venueVars,
                   result>>

\* app.pending_requests.add(100)
ParamsRegister ==
    /\ pc = "params_register"
    /\ pending_requests' = pending_requests \cup {ParamsReqId}
    /\ pc' = "params_reset"
    /\ UNCHANGED <<bridgeVars, orderVars, connected, data_ready, contract_details, option_params,
                   option_data, localVars, waited, venueVars, result>>

\* app.option_params = []
ParamsReset ==
    /\ pc = "params_reset"
    /\ option_params' = <<>>
    /\ pc' = "req_params"
    /\ UNCHANGED <<bridgeVars, orderVars, connected, pending_requests, data_ready, contract_details,
                   option_data, localVars, waited, venueVars, result>>

\* app.reqSecDefOptParams(100, ticker, "", "STK", stock_con_id)
ReqParams ==
    /\ pc = "req_params"
    /\ requested' = requested \cup {ParamsReqId}
    /\ waited' = 0
    /\ pc' = "wait_params"
    /\ UNCHANGED <<bridgeVars, orderVars, connected, appVars, localVars, subscribed, contracts,
                   error_log,
                   result>>

\* mutant: at the timeout the call goes on with what was accumulated
WaitParams_NoTimeout ==
    /\ pc = "wait_params"
    /\ data_ready \/ waited = ParamTimeout
    /\ pc' = "choose_params"
    /\ UNCHANGED <<connected, result>>
    /\ UNCHANGED <<bridgeVars, orderVars, appVars, localVars, waited, venueVars>>

\* data_ready.wait(10) of the option-parameter request
WaitParams ==
    /\ pc = "wait_params"
    /\ data_ready \/ waited = ParamTimeout
    /\ IF data_ready
       THEN /\ pc' = "choose_params"
            /\ UNCHANGED <<connected, result>>
       ELSE FailDisconnected("Timeout getting option parameters")
    /\ UNCHANGED <<bridgeVars, orderVars, appVars, localVars, waited, venueVars>>

\* the first parameter set whose trading class is the ticker, else the first
RECURSIVE FirstMatch(_, _)
FirstMatch(params, symbol) ==
    IF params = <<>> THEN <<>>
    ELSE IF Head(params).tradingClass = symbol THEN <<Head(params)>>
    ELSE FirstMatch(Tail(params), symbol)

\* mutant: the first parameter set is taken whatever its trading class
PrimaryParams_First(params, symbol) == params[1]

\* mutant: the last parameter set whose trading class is the ticker
PrimaryParams_LastMatch(params, symbol) ==
    LET matching == {i \in DOMAIN params : params[i].tradingClass = symbol}
    IN  IF matching = {} THEN params[1]
        ELSE params[CHOOSE i \in matching : \A j \in matching : j <= i]

PrimaryParams(params, symbol) ==
    IF FirstMatch(params, symbol) # <<>> THEN FirstMatch(params, symbol)[1]
    ELSE params[1]

\* the first expiration >= today, else the first expiration
RECURSIVE FirstFrom(_, _)
FirstFrom(exps, day) ==
    IF exps = <<>> THEN <<>>
    ELSE IF Head(exps) >= day THEN <<Head(exps)>>
    ELSE FirstFrom(Tail(exps), day)

\* mutant: the earliest expiration is taken whatever the day
NearestExpiry_Earliest(exps, day) == exps[1]

NearestExpiry(exps, day) ==
    IF FirstFrom(exps, day) # <<>> THEN FirstFrom(exps, day)[1]
    ELSE exps[1]

\* today's date; dates are day numbers, ordered as their YYYYMMDD strings
Days == {1, 2, 3, 5}

\* the parameter set is chosen, then the expiration
ChooseParams ==
    /\ pc = "choose_params"
    /\ IF option_params = <<>>
       THEN /\ FailDisconnected("Does not support options")
            /\ UNCHANGED <<expirations, all_strikes, nearest_expiry, today>>
       ELSE LET primary_params == PrimaryParams(option_params, Ticker)
            IN  /\ expirations' = primary_params.expirations
                /\ all_strikes' = primary_params.strikes
                /\ IF expirations' = <<>>
                   THEN /\ FailDisconnected("No expirations found")
                        /\ UNCHANGED <<nearest_expiry, today>>
                   ELSE /\ \E day \in Days :
                               /\ today' = day
                               /\ nearest_expiry' = NearestExpiry(expirations', day)
                        /\ pc' = "select"
                        /\ UNCHANGED <<connected, result>>
    /\ UNCHANGED <<bridgeVars, orderVars, appVars, current_price, selected_strikes, req_id,
                   option_chain_data, waited, venueVars>>

\* a call of the venue client raises: connect, reqMktData,
\* reqContractDetails, reqSecDefOptParams
ChainFault ==
    /\ \/ pc \in {"connect", "req_price", "req_details", "req_params"}
       \/ pc = "subscribe" /\ LoopIndex <= Len(selected_strikes)
    /\ ChainExcept
    /\ UNCHANGED <<bridgeVars, orderVars, connected, appVars, localVars, waited, venueVars>>

---------------------------------------------------------------------------
(* The venue: callbacks for what was requested, in any order, with         *)
(* duplicates, while the connection is up                                  *)

\* prices the venue reports for the underlying: none (0) or a price
UnderlyingPrices == {Num(0), Num(5)}

VenueTickPrice(ids, tickTypes, prices) ==
    /\ connected
    /\ \E reqId \in ids \cap subscribed, tickType \in tickTypes, price \in prices :
           tickPrice(reqId, tickType, price)
    /\ UNCHANGED <<bridgeVars, orderVars, pc, connected, localVars, waited, venueVars, result>>

VenueUnderlyingTick == VenueTickPrice({PriceReqId}, {1, 4}, UnderlyingPrices)

VenueContractDetails ==
    /\ connected
    /\ DetailsReqId \in requested
    /\ Len(contract_details) < MaxDetails
    /\ contractDetails(DetailsReqId, 1)
    /\ UNCHANGED <<bridgeVars, orderVars, pc, connected, localVars, waited, venueVars, result>>

VenueContractDetailsEnd ==
    /\ connected
    /\ DetailsReqId \in requested
    /\ contractDetailsEnd(DetailsReqId)
    /\ UNCHANGED <<bridgeVars, orderVars, pc, connected, localVars, waited, venueVars, result>>

TradingClasses == {Ticker, "SPYW"}

\* <<expirations, strikes>> of a parameter set: complete, without strikes,
\* without expirations
ParamShapes == {<<{2, 4}, {4, 6}>>, <<{2, 4}, {}>>, <<{}, {}>>}

VenueOptionParameter ==
    /\ connected
    /\ ParamsReqId \in requested
    /\ Len(option_params) < MaxParamSets
    /\ \E tc \in TradingClasses, shape \in ParamShapes :
           securityDefinitionOptionParameter(ParamsReqId, tc, shape[1], shape[2])
    /\ UNCHANGED <<bridgeVars, orderVars, pc, connected, localVars, waited, venueVars, result>>

VenueOptionParameterEnd ==
    /\ connected
    /\ ParamsReqId \in requested
    /\ securityDefinitionOptionParameterEnd(ParamsReqId)
    /\ UNCHANGED <<bridgeVars, orderVars, pc, connected, localVars, waited, venueVars, result>>

---------------------------------------------------------------------------
(* The whole call against the venue *)

InitChain ==
    /\ pc = "connect"
    /\ connected = FALSE
    /\ pending_requests = {}
    /\ data_ready = FALSE
    /\ contract_details = <<>>
    /\ option_params = <<>>
    /\ option_data = [r \in {} |-> EmptyBucket]
    /\ current_price = None
    /\ expirations = <<>>
    /\ all_strikes = <<>>
    /\ nearest_expiry = 0
    /\ today = 0
    /\ selected_strikes = <<>>
    /\ req_id = FirstOptionReqId
    /\ option_chain_data = <<>>
    /\ waited = 0
    /\ subscribed = {}
    /\ contracts = NoContracts
    /\ error_log = {}
    /\ requested = {}
    /\ result = NoResult
    /\ OrderIdle
    /\ BridgeIdle

NextChain ==
    \/ Connect
    \/ ReqPrice
    \/ ReadPrice
    \/ DetailsClear
    \/ DetailsReset
    \/ DetailsRegister
    \/ ReqDetails
    \/ WaitTick
    \/ WaitDetails
    \/ CheckDetails
    \/ ParamsClear
    \/ ParamsRegister
    \/ ParamsReset
    \/ ReqParams
    \/ WaitParams
    \/ ChooseParams
    \/ SelectStrikes
    \/ SubscribeStrike
    \/ Settle
    \/ ReduceStrike
    \/ Finish
    \/ ChainFault
    \/ VenueUnderlyingTick
    \/ VenueContractDetails
    \/ VenueContractDetailsEnd
    \/ VenueOptionParameter
    \/ VenueOptionParameterEnd

SpecChain == InitChain /\ [][NextChain]_vars

---------------------------------------------------------------------------
(* The strike window over every strike list and price: the call starts at  *)
(* the strike selection with the state the earlier steps leave behind      *)

StrikeGrid == {2 * k : k \in 1..MaxStrikes}

\* a run of the grid with at most one strike missing, or no strike at all
StrikeSets ==
    {{2 * k : k \in (lo..hi) \ {hole}} :
        lo \in 1..MaxStrikes, hi \in 0..MaxStrikes, hole \in 0..MaxStrikes}

\* a price the call can hold at the selection: any float that is true
WindowPrices == {Num(p) : p \in ((-1)..(2 * MaxStrikes + 2)) \ {0}} \cup {NaN}

\* the call at the strike selection: the state the earlier steps leave
\* behind for one complete parameter set
AtSelect(price, strikes) ==
    /\ pc = "select"
    /\ connected = TRUE
    /\ pending_requests = {}
    /\ data_ready = TRUE
    /\ contract_details = <<1>>
    /\ current_price = price
    /\ all_strikes = strikes
    /\ expirations = <<2, 4>>
    /\ nearest_expiry = 2
    /\ today = 1
    /\ option_params = <<[tradingClass |-> Ticker, expirations |-> expirations,
                          strikes |-> all_strikes]>>
    /\ option_data = [r \in {PriceReqId} |-> DictSet(EmptyBucket, "last", price)]
    /\ selected_strikes = <<>>
    /\ req_id = FirstOptionReqId
    /\ option_chain_data = <<>>
    /\ waited = 0
    /\ subscribed = {PriceReqId}
    /\ contracts = reqMktData(NoContracts, PriceReqId, StockContract)
    /\ error_log = {}
    /\ requested = {DetailsReqId, ParamsReqId}
    /\ result = NoResult
    /\ OrderIdle
    /\ BridgeIdle

InitWindow ==
    \E price \in WindowPrices, S \in StrikeSets : AtSelect(price, SortedOfSet(S))

NextWindow ==
    \/ SelectStrikes
    \/ SubscribeStrike
    \/ Settle
    \/ ReduceStrike
    \/ Finish

SpecWindow == InitWindow /\ [][NextWindow]_vars

---------------------------------------------------------------------------
(* place_order *)

OrderFailure(message) == [returned |-> TRUE, success |-> FALSE, message |-> message]

\* the success result: the message names the fill price and the legs prepared
OrderSuccess(price, legs) ==
    [returned |-> TRUE, success |-> TRUE, message |-> "order filled",
     fill |-> price, bracket_messages |-> legs]

\* the failure that names the status the parent order ended in
OrderNotFilled(status) ==
    [returned |-> TRUE, success |-> FALSE, message |-> "Order not filled",
     status |-> status]

\* mutant: the exception leaves place_order
OrderExcept_Propagates ==
    /\ result' = [returned |-> FALSE, raised |-> TRUE]
    /\ pc' = "done"

\* except Exception of place_order
OrderExcept ==
    /\ result' = OrderFailure("Failed to place order")
    /\ pc' = "done"

\* mutant: the market-hours answer is not looked at
CheckMarket_Ignored ==
    /\ pc = "market"
    /\ pc' = "qualify"
    /\ UNCHANGED <<result, orderVars>>
    /\ UNCHANGED <<connected, appVars, localVars, waited, venueVars, bridgeVars>>

\* is_open, message = is_market_open(); the order is rejected when closed
CheckMarket ==
    /\ pc = "market"
    /\ IF market_open
       THEN /\ pc' = "qualify"
            /\ UNCHANGED result
       ELSE /\ result' = OrderFailure("Market is closed")
            /\ pc' = "done"
    /\ UNCHANGED orderVars
    /\ UNCHANGED <<connected, appVars, localVars, waited, venueVars, bridgeVars>>

\* ib.qualifyContracts(contract): the request is sent, the call blocks until
\* the venue has answered (IB.RequestTimeout is left at 0: no timeout)
Qualify ==
    /\ pc = "qualify"
    /\ qualified' = TRUE
    /\ pc' = "qualifying"
    /\ UNCHANGED <<argVars, trade, elapsed, fill_price, sl_order, tp_order,
                   children, market_open, result>>
    /\ UNCHANGED <<connected, appVars, localVars, waited, venueVars, bridgeVars>>

\* trade = ib.placeOrder(contract, order); start_time = time.time()
PlaceParent ==
    /\ pc = "place_parent"
    /\ trade' = [status |-> "PendingSubmit", fills |-> <<>>, avgFillPrice |-> 0]
    /\ elapsed' = 0
    /\ pc' = "poll"
    /\ UNCHANGED <<argVars, qualified, fill_price, sl_order, tp_order,
                   children, market_open, result>>
    /\ UNCHANGED <<connected, appVars, localVars, waited, venueVars, bridgeVars>>

\* Trade.isDone(): the status is one of OrderStatus.DoneStates
IsDone(t) == t.status \in {"Filled", "Cancelled", "ApiCancelled"}

\* while not trade.isDone()
PollCheck ==
    /\ pc = "poll"
    /\ pc' = IF IsDone(trade) THEN "check_filled" ELSE "poll_sleep"
    /\ UNCHANGED <<bridgeVars, orderVars, result>>
    /\ UNCHANGED <<connected, appVars, localVars, waited, venueVars, bridgeVars>>

\* ib.sleep(0.5) returns, then the deadline test: a sleep lasts a little more
\* than 0.5, so the time is beyond the timeout after FillTimeout * 2 sleeps
PollSleep ==
    /\ pc = "poll_sleep"
    /\ elapsed' = elapsed + 1
    /\ IF elapsed' >= FillTimeout * SleepsPerSecond
       THEN /\ result' = OrderFailure("Order placement timeout")
            /\ pc' = "done"
       ELSE /\ pc' = "poll"
            /\ UNCHANGED result
    /\ UNCHANGED <<argVars, qualified, trade, fill_price, sl_order, tp_order,
                   children, market_open>>
    /\ UNCHANGED <<connected, appVars, localVars, waited, venueVars, bridgeVars>>

\* mutant: the status the loop ended with is not looked at
CheckFilled_Unchecked ==
    /\ pc = "check_filled"
    /\ pc' = "fill_price"
    /\ UNCHANGED result
    /\ UNCHANGED orderVars
    /\ UNCHANGED <<connected, appVars, localVars, waited, venueVars, bridgeVars>>

\* if trade.orderStatus.status != 'Filled'
CheckFilled ==
    /\ pc = "check_filled"
    /\ IF trade.status # "Filled"
       THEN /\ result' = OrderNotFilled(trade.status)
            /\ pc' = "done"
       ELSE /\ pc' = "fill_price"
            /\ UNCHANGED result
    /\ UNCHANGED orderVars
    /\ UNCHANGED <<connected, appVars, localVars, waited, venueVars, bridgeVars>>

RECURSIVE TotalQuantity(_)
TotalQuantity(fills) ==
    IF fills = <<>> THEN 0 ELSE Head(fills).shares + TotalQuantity(Tail(fills))

RECURSIVE TotalValue(_)
TotalValue(fills) ==
    IF fills = <<>> THEN 0
    ELSE Head(fills).shares * Head(fills).price + TotalValue(Tail(fills))

\* mutant: a zero average of the fills is not replaced by avgFillPrice
FillPriceOf_NoFallback(t) ==
    IF t.fills # <<>> /\ TotalQuantity(t.fills) > 0
    THEN Frac(TotalValue(t.fills), TotalQuantity(t.fills))
    ELSE Frac(t.avgFillPrice, 1)

\* the fill price: the weighted average of the fills, else avgFillPrice
FillPriceOf(t) ==
    LET fromFills == IF t.fills # <<>> /\ TotalQuantity(t.fills) > 0
                     THEN Frac(TotalValue(t.fills), TotalQuantity(t.fills))
                     ELSE NoPrice
    IN  IF fromFills = NoPrice \/ fromFills.n = 0
        THEN Frac(t.avgFillPrice, 1)
        ELSE fromFills

\* the fill price is found and validated
DetermineFillPrice ==
    /\ pc = "fill_price"
    /\ fill_price' = FillPriceOf(trade)
    /\ IF fill_price'.n <= 0
       THEN /\ result' = OrderFailure("Could not determine fill price")
            /\ pc' = "done"
       ELSE /\ pc' = "bracket"
            /\ UNCHANGED result
    /\ UNCHANGED <<argVars, qualified, trade, elapsed, sl_order, tp_order,
                   children, market_open>>
    /\ UNCHANGED <<connected, appVars, localVars, waited, venueVars, bridgeVars>>

\* mutant: the quotient is truncated instead of rounded
round_to_tick_Truncated(price) ==
    LET tick_size == IF price.n < TickThreshold * price.d THEN TickSizeLow
                     ELSE TickSizeHigh
    IN  (price.n \div (price.d * tick_size)) * tick_size

\* round_to_tick of a price n / d cents: round(price / tick_size) * tick_size
round_to_tick(price) ==
    LET tick_size == IF price.n < TickThreshold * price.d THEN TickSizeLow
                     ELSE TickSizeHigh
    IN  RoundDiv(price.n, price.d * tick_size) * tick_size

\* fill_price * (1 - sl_pct / 100)
StopPriceRaw(price, sl_pct) == Frac(price.n * (100 - sl_pct), price.d * 100)

\* fill_price * (1 + tp_pct / 100)
LimitPriceRaw(price, tp_pct) == Frac(price.n * (100 + tp_pct), price.d * 100)

\* stop_loss_pct != '--' and stop_loss_pct != '' and stop_loss_pct is not None
HasPct(arg) == arg.kind \notin {"dashes", "empty"}

\* mutant: the child takes the action of the parent
Opposite_Same(act) == act

\* 'SELL' if action == 'BUY' else 'BUY'
Opposite(act) == IF act = "BUY" THEN "SELL" ELSE "BUY"

\* oca_group = f"Bracket_{int(time.time() * 1000)}": a name made from the
\* clock, once in a call
OcaGroups == {"Bracket_1", "Bracket_2"}

\* the stop-loss Order, in the OCA group if a take-profit was asked for
StopLossOrder(act, qty, price, sl_pct, has_take_profit, oca_group) ==
    [orderType     |-> "STP",
     action        |-> Opposite(act),
     totalQuantity |-> qty,
     price         |-> round_to_tick(StopPriceRaw(price, sl_pct)),
     ocaGroup      |-> IF has_take_profit THEN oca_group ELSE "",
     ocaType       |-> IF has_take_profit THEN 1 ELSE 0]

\* mutant: the take-profit Order is never put in the OCA group
TakeProfitOrder_Unlinked(act, qty, price, tp_pct, has_stop_loss, oca_group) ==
    [orderType     |-> "LMT",
     action        |-> Opposite(act),
     totalQuantity |-> qty,
     price         |-> round_to_tick(LimitPriceRaw(price, tp_pct)),
     ocaGroup      |-> "",
     ocaType       |-> 0]

\* the take-profit Order, in the OCA group if a stop-loss was asked for
TakeProfitOrder(act, qty, price, tp_pct, has_stop_loss, oca_group) ==
    [orderType     |-> "LMT",
     action        |-> Opposite(act),
     totalQuantity |-> qty,
     price         |-> round_to_tick(LimitPriceRaw(price, tp_pct)),
     ocaGroup      |-> IF has_stop_loss THEN oca_group ELSE "",
     ocaType       |-> IF has_stop_loss THEN 1 ELSE 0]

\* mutant: only float() raises, a non-finite price goes through
LegRaises_OnlyUnparsable(arg) == arg.kind = "malformed"

\* the preparation of a leg raises: float() raises ValueError on a text that
\* is no number; round() raises ValueError on a NaN quotient and
\* OverflowError on an infinite one
LegRaises(arg) == arg.kind \in {"malformed", "nan", "inf"}

\* the legs asked for are prepared; an exception while a leg is prepared is
\* caught and drops that leg only
PrepareBracket(slArgs, tpArgs) ==
    /\ pc = "bracket"
    /\ \E sl \in slArgs, tp \in tpArgs, oca_group \in OcaGroups :
          /\ stop_loss_pct' = sl
          /\ take_profit_pct' = tp
          /\ sl_order' = IF HasPct(sl) /\ ~LegRaises(sl)
                         THEN StopLossOrder(action, quantity, fill_price, sl.v,
                                            HasPct(tp), oca_group)
                         ELSE NoOrder
          /\ tp_order' = IF HasPct(tp) /\ ~LegRaises(tp)
                         THEN TakeProfitOrder(action, quantity, fill_price, tp.v,
                                              HasPct(sl), oca_group)
                         ELSE NoOrder
          /\ pc' = IF HasPct(sl) \/ HasPct(tp) THEN "submit_sl" ELSE "finish"
    /\ UNCHANGED <<action, quantity, qualified, trade, elapsed, fill_price,
                   children, market_open, result>>
    /\ UNCHANGED <<connected, appVars, localVars, waited, venueVars, bridgeVars>>

\* if sl_order: ib.placeOrder(contract, sl_order); ib.sleep(0.5)
SubmitStopLoss ==
    /\ pc = "submit_sl"
    /\ children' = IF sl_order # NoOrder THEN Append(children, sl_order)
                   ELSE children
    /\ pc' = "submit_tp"
    /\ UNCHANGED <<argVars, qualified, trade, elapsed, fill_price, sl_order,
                   tp_order, market_open, result>>
    /\ UNCHANGED <<connected, appVars, localVars, waited, venueVars, bridgeVars>>

\* if tp_order: ib.placeOrder(contract, tp_order); ib.sleep(0.5)
SubmitTakeProfit ==
    /\ pc = "submit_tp"
    /\ children' = IF tp_order # NoOrder THEN Append(children, tp_order)
                   ELSE children
    /\ pc' = "finish"
    /\ UNCHANGED <<argVars, qualified, trade, elapsed, fill_price, sl_order,
                   tp_order, market_open, result>>
    /\ UNCHANGED <<connected, appVars, localVars, waited, venueVars, bridgeVars>>

\* the prices of the legs prepared, as the success message lists them
BracketMessages ==
    (IF sl_order # NoOrder THEN <<sl_order.price>> ELSE <<>>)
        \o (IF tp_order # NoOrder THEN <<tp_order.price>> ELSE <<>>)

\* the success result
ReturnSuccess ==
    /\ pc = "finish"
    /\ result' = OrderSuccess(fill_price, BracketMessages)
    /\ pc' = "done"
    /\ UNCHANGED orderVars
    /\ UNCHANGED <<connected, appVars, localVars, waited, venueVars, bridgeVars>>

\* a call of the venue client raises: qualifyContracts, placeOrder, sleep
OrderFault ==
    /\ \/ pc \in {"qualify", "qualifying", "place_parent", "poll_sleep"}
       \/ pc = "submit_sl" /\ sl_order # NoOrder
       \/ pc = "submit_tp" /\ tp_order # NoOrder
    /\ OrderExcept
    /\ UNCHANGED orderVars
    /\ UNCHANGED <<connected, appVars, localVars, waited, venueVars, bridgeVars>>

---------------------------------------------------------------------------
(* The venue's reports on the parent order, handled while ib.sleep runs *)

\* prices of the executions, in cents
FillPrices == {297, 1000}

\* the venue answers the contract-details request of qualifyContracts, which
\* then returns
VenueContractQualified ==
    /\ pc = "qualifying"
    /\ pc' = "place_parent"
    /\ UNCHANGED <<bridgeVars, orderVars, result>>
    /\ UNCHANGED <<connected, appVars, localVars, waited, venueVars, bridgeVars>>

\* a status report; avgFillPrice is zero until the order is filled
VenueOrderStatus ==
    /\ pc = "poll_sleep"
    /\ ~IsDone(trade)
    /\ \E status \in {"Submitted", "Filled", "Cancelled", "Inactive"},
          avg \in {0} \cup FillPrices :
          /\ status # "Filled" => avg = 0
          /\ trade' = [trade EXCEPT !.status = status, !.avgFillPrice = avg]
    /\ UNCHANGED <<argVars, qualified, elapsed, fill_price, sl_order, tp_order,
                   children, market_open, pc, result>>
    /\ UNCHANGED <<connected, appVars, localVars, waited, venueVars, bridgeVars>>

\* an execution report: shares filled at a price
VenueExecution ==
    /\ pc = "poll_sleep"
    /\ trade.status \notin {"Cancelled", "Inactive"}
    /\ Len(trade.fills) < MaxFills
    /\ \E shares \in 1..quantity, price \in FillPrices :
          /\ TotalQuantity(trade.fills) + shares <= quantity
          /\ trade' = [trade EXCEPT
                          !.fills = Append(@, [shares |-> shares, price |-> price])]
    /\ UNCHANGED <<argVars, qualified, elapsed, fill_price, sl_order, tp_order,
                   children, market_open, pc, result>>
    /\ UNCHANGED <<connected, appVars, localVars, waited, venueVars, bridgeVars>>

---------------------------------------------------------------------------
(* One call of place_order against the venue *)

\* the state of the option-chain variables while no chain is fetched
ChainIdle ==
    /\ connected = FALSE
    /\ pending_requests = {}
    /\ data_ready = FALSE
    /\ contract_details = <<>>
    /\ option_params = <<>>
    /\ option_data = [r \in {} |-> EmptyBucket]
    /\ current_price = None
    /\ expirations = <<>>
    /\ all_strikes = <<>>
    /\ nearest_expiry = 0
    /\ today = 0
    /\ selected_strikes = <<>>
    /\ req_id = FirstOptionReqId
    /\ option_chain_data = <<>>
    /\ waited = 0
    /\ subscribed = {}
    /\ contracts = NoContracts
    /\ error_log = {}
    /\ requested = {}

\* the arguments of the call, before anything is done
OrderCalled(act, qty, is_open) ==
    /\ pc = "market"
    /\ result = NoResult
    /\ ChainIdle
    /\ BridgeIdle
    /\ action = act
    /\ quantity = qty
    /\ market_open = is_open
    /\ stop_loss_pct = Unread
    /\ take_profit_pct = Unread
    /\ qualified = FALSE
    /\ trade = NoTrade
    /\ elapsed = 0
    /\ fill_price = NoPrice
    /\ sl_order = NoOrder
    /\ tp_order = NoOrder
    /\ children = <<>>

InitOrder ==
    \E act \in {"BUY", "SELL"}, qty \in 1..MaxQuantity, is_open \in BOOLEAN :
        OrderCalled(act, qty, is_open)

\* the stop-loss argument is "--" or "5", the take-profit one "--" or "10"
PrepareOrderBracket == PrepareBracket({Dashes, Pct(5)}, {Dashes, Pct(10)})

NextOrder ==
    \/ CheckMarket
    \/ Qualify
    \/ PlaceParent
    \/ PollCheck
    \/ PollSleep
    \/ CheckFilled
    \/ DetermineFillPrice
    \/ PrepareOrderBracket
    \/ SubmitStopLoss
    \/ SubmitTakeProfit
    \/ ReturnSuccess
    \/ OrderFault
    \/ VenueContractQualified
    \/ VenueOrderStatus
    \/ VenueExecution

SpecOrder == InitOrder /\ [][NextOrder]_vars

\* the steps of the thread that runs place_order; time passes in ib.sleep
OrderStep ==
    \/ CheckMarket
    \/ Qualify
    \/ PlaceParent
    \/ PollCheck
    \/ PollSleep
    \/ CheckFilled
    \/ DetermineFillPrice
    \/ PrepareOrderBracket
    \/ SubmitStopLoss
    \/ SubmitTakeProfit
    \/ ReturnSuccess

\* the thread keeps running; the venue may stay silent
FairOrder == SpecOrder /\ WF_vars(OrderStep)

---------------------------------------------------------------------------
(* Either call against the venue, with the faults of the venue client *)

InitCalls == InitChain \/ InitOrder

NextCalls == NextChain \/ NextOrder

SpecCalls == InitCalls /\ [][NextCalls]_vars

---------------------------------------------------------------------------
(* The bracket of a filled parent order, over all kinds of percentage text *)

\* the parent order was filled by one execution during the first sleep and
\* the fill price has been found
ParentFilled(act, qty, price) ==
    /\ pc = "bracket"
    /\ result = NoResult
    /\ ChainIdle
    /\ BridgeIdle
    /\ action = act
    /\ quantity = qty
    /\ market_open = TRUE
    /\ stop_loss_pct = Unread
    /\ take_profit_pct = Unread
    /\ qualified = TRUE
    /\ trade = [status |-> "Filled",
                fills |-> <<[shares |-> qty, price |-> price]>>,
                avgFillPrice |-> price]
    /\ elapsed = 1
    /\ fill_price = FillPriceOf(trade)
    /\ sl_order = NoOrder
    /\ tp_order = NoOrder
    /\ children = <<>>

\* percentage arguments: none asked for, no number, no finite number, 5 and
\* 10 per cent
BracketPcts == {Dashes, Empty, Malformed, NotANumber, Infinite, Pct(5), Pct(10)}

InitBracket ==
    \E act \in {"BUY", "SELL"}, qty \in 1..MaxQuantity, price \in FillPrices :
        ParentFilled(act, qty, price)

PrepareAnyBracket == PrepareBracket(BracketPcts, BracketPcts)

NextBracket ==
    \/ PrepareAnyBracket
    \/ SubmitStopLoss
    \/ SubmitTakeProfit
    \/ ReturnSuccess
    \/ OrderFault

SpecBracket == InitBracket /\ [][NextBracket]_vars

\* the same while the venue client raises nothing
NextLegs ==
    \/ PrepareAnyBracket
    \/ SubmitStopLoss
    \/ SubmitTakeProfit
    \/ ReturnSuccess

SpecLegs == InitBracket /\ [][NextLegs]_vars

---------------------------------------------------------------------------
(* The fill price of a filled parent order, over the reports of the venue *)

\* prices of executions as the venue may report them, zero included
ReportedPrices == {0} \cup FillPrices

\* avgFillPrice of the order status: unset (0.0) or a price
ReportedAverages == {0, 297}

\* the executions of an order of qty shares: at most MaxFills of them
FillLists(qty) ==
    LET Execs == [shares : 1..qty, price : ReportedPrices]
        All == UNION {[1..n -> Execs] : n \in 0..MaxFills}
    IN  {f \in All : TotalQuantity(f) <= qty}

\* the parent order is Filled and the loop has been left
ParentDone(act, qty, fills, avg) ==
    /\ pc = "fill_price"
    /\ result = NoResult
    /\ ChainIdle
    /\ BridgeIdle
    /\ action = act
    /\ quantity = qty
    /\ market_open = TRUE
    /\ stop_loss_pct = Unread
    /\ take_profit_pct = Unread
    /\ qualified = TRUE
    /\ trade = [status |-> "Filled", fills |-> fills, avgFillPrice |-> avg]
    /\ elapsed = 1
    /\ fill_price = NoPrice
    /\ sl_order = NoOrder
    /\ tp_order = NoOrder
    /\ children = <<>>

InitFill ==
    \E act \in {"BUY", "SELL"}, qty \in 1..MaxQuantity, avg \in ReportedAverages :
        \E fills \in FillLists(qty) : ParentDone(act, qty, fills, avg)

NextFill ==
    \/ DetermineFillPrice
    \/ PrepareOrderBracket
    \/ SubmitStopLoss
    \/ SubmitTakeProfit
    \/ ReturnSuccess

SpecFill == InitFill /\ [][NextFill]_vars

---------------------------------------------------------------------------
(* The prices of the legs, over a range of fill prices and percentages *)

\* fill prices, in cents, lie within FillSpan of the tick threshold
FillSpan == 20

\* whole percentages up to MaxPct
MaxPct == 10

RoundFills == ((TickThreshold - FillSpan)..(TickThreshold + FillSpan)) \cup {1000}

RoundPcts == {Pct(v) : v \in (0..MaxPct) \cup {100, 150}}

InitRound == \E price \in RoundFills : ParentFilled("BUY", 1, price)

PrepareStopOnly == PrepareBracket(RoundPcts, {Dashes})

PrepareLimitOnly == PrepareBracket({Dashes}, RoundPcts)

NextRound ==
    \/ PrepareStopOnly
    \/ PrepareLimitOnly
    \/ SubmitStopLoss
    \/ SubmitTakeProfit
    \/ ReturnSuccess

SpecRound == InitRound /\ [][NextRound]_vars

---------------------------------------------------------------------------
(* The price of the underlying, over the ticks of the price subscription *)

\* prices the venue reports: none (0 or -1), not a number, or a price
PriceTicks == {Num(0), Num(-1), NaN, Num(5), Num(7)}

\* the price was requested and time.sleep(2) is running
PriceRequested ==
    /\ pc = "read_price"
    /\ connected = TRUE
    /\ pending_requests = {}
    /\ data_ready = FALSE
    /\ contract_details = <<>>
    /\ option_params = <<>>
    /\ option_data = [r \in {} |-> EmptyBucket]
    /\ current_price = None
    /\ expirations = <<>>
    /\ all_strikes = <<>>
    /\ nearest_expiry = 0
    /\ today = 0
    /\ selected_strikes = <<>>
    /\ req_id = FirstOptionReqId
    /\ option_chain_data = <<>>
    /\ waited = 0
    /\ subscribed = {PriceReqId}
    /\ contracts = reqMktData(NoContracts, PriceReqId, StockContract)
    /\ error_log = {}
    /\ requested = {}
    /\ result = NoResult
    /\ OrderIdle
    /\ BridgeIdle

\* bid, ask, last and high ticks of the underlying
VenuePriceTick == VenueTickPrice({PriceReqId}, {1, 2, 4, 6}, PriceTicks)

NextPrice ==
    \/ VenuePriceTick
    \/ ReadPrice

SpecPrice == PriceRequested /\ [][NextPrice]_vars

---------------------------------------------------------------------------
(* The ticks of one strike's call and put, and their reduction to a row *)

\* quotes in cents: not-a-number, the venue's -1.00 for "no quote", zero and
\* two prices whose sum is odd
OptionQuotes == {NaN, Num(-100), Num(0), Num(120), Num(131)}

\* bid, ask and a tick type tickPrice does not store (6, the day's high)
VenueOptionTick ==
    VenueTickPrice({FirstOptionReqId, FirstOptionReqId + 1}, {1, 2, 6}, OptionQuotes)

InitTicks == AtSelect(Num(5), <<4>>)

NextTicks ==
    \/ SelectStrikes
    \/ SubscribeStrike
    \/ Settle
    \/ ReduceStrike
    \/ Finish
    \/ VenueOptionTick

SpecTicks == InitTicks /\ [][NextTicks]_vars

---------------------------------------------------------------------------
(* The rows of two strikes, over the subscriptions that produce ticks *)

\* bid, ask and high ticks at 1.20 for any of the four subscriptions
VenueRowTick ==
    VenueTickPrice(FirstOptionReqId..(FirstOptionReqId + 3), {1, 2, 6}, {Num(120)})

InitRows == AtSelect(Num(5), <<4, 6>>)

NextRows ==
    \/ SelectStrikes
    \/ SubscribeStrike
    \/ Settle
    \/ ReduceStrike
    \/ Finish
    \/ VenueRowTick

SpecRows == InitRows /\ [][NextRows]_vars

\* the quote a bucket holds is absent, NaN, zero or negative
NoQuote(bucket, key) ==
    \/ key \notin DOMAIN bucket
    \/ IsNaN(bucket[key])
    \/ bucket[key].v <= 0

\* the mid price the claim gives for a bucket
ClaimedMid(bucket) ==
    IF NoQuote(bucket, "bid") \/ NoQuote(bucket, "ask") THEN Num(0)
    ELSE Num(RoundDiv(bucket["bid"].v + bucket["ask"].v, 2))

\* C3: when a row is built, each side's mid is 0 if its bid or ask is absent
\* or not positive, and round((bid + ask) / 2, 2) otherwise
C3_MidZeroUnlessBothPositive ==
    [][Len(option_chain_data') = Len(option_chain_data) + 1
         => LET row == option_chain_data'[Len(option_chain_data')]
            IN  /\ row.callMid = ClaimedMid(DictGet(option_data, req_id, EmptyBucket))
                /\ row.putMid = ClaimedMid(DictGet(option_data, req_id + 1, EmptyBucket))
      ]_vars

---------------------------------------------------------------------------
(* Claims on the strike window *)

RowStrikes == [i \in 1..Len(result.optionChain) |-> result.optionChain[i].strike]

StrictlyDescending(s) == \A i \in 1..(Len(s) - 1) : s[i] > s[i + 1]

\* C1: with at least 12 distinct strikes in the chosen parameter set, a
\* successful call returns exactly 12 rows, strictly descending by strike,
\* whatever the price
C1_TwelveRowsDescending ==
    (result.returned /\ result.success /\ Len(all_strikes) >= 12)
        => /\ Len(result.optionChain) = 12
           /\ StrictlyDescending(RowStrikes)

\* the nearest strike is within 6 positions of the low end of 13 strikes:
\* the window is extended upwards
C1_Witness ==
    /\ result.returned /\ result.success
    /\ Len(all_strikes) = 13
    /\ current_price = Num(5)
    /\ Len(result.optionChain) = 12
    /\ RowStrikes[12] = all_strikes[1]

\* C2: with fewer than 12 strikes the call returns as many rows as there
\* are strikes, descending by strike
C2_AllStrikesWhenFewer ==
    (result.returned /\ Len(all_strikes) < 12)
        => /\ Len(result.optionChain) = Len(all_strikes)
           /\ StrictlyDescending(RowStrikes)

C2_Witness ==
    /\ result.returned /\ result.success
    /\ Len(all_strikes) = 11
    /\ Len(result.optionChain) = 11

---------------------------------------------------------------------------
(* Claims on the completion signal and the waits *)

\* a step of the callback thread: the foreground stays where it is
CallbackStep == pc' = pc /\ waited' = waited /\ result' = result

\* C4: data_ready is set exactly in the step in which pending_requests
\* becomes empty; a completion callback that finds its id absent changes
\* neither the set nor the signal
C4_SignalExactlyWhenSetEmpties ==
    [][/\ (~data_ready /\ data_ready')
            => (pending_requests # {} /\ pending_requests' = {})
       /\ (pending_requests # {} /\ pending_requests' = {}) => data_ready'
       /\ (CallbackStep /\ pending_requests' = pending_requests)
            => data_ready' = data_ready
       /\ CallbackStep => pending_requests' \subseteq pending_requests
      ]_vars

\* the details request was completed, the signal cleared again, and the wait
\* for the option parameters runs while the venue may repeat the completion
\* of request 99
C4_Witness ==
    /\ pc = "wait_params"
    /\ connected
    /\ pending_requests = {ParamsReqId}
    /\ DetailsReqId \in requested
    /\ ~data_ready
    /\ waited > 0

\* C5: a call that returned with request 100 sent and never completed
\* returned the timeout failure, without rows
C5_ParamsTimeoutIsFailure ==
    (result.returned /\ ParamsReqId \in requested
        /\ ParamsReqId \in pending_requests)
        => result = ChainFailure("Timeout getting option parameters")

\* the timeout with parameter sets already accumulated
C5_Witness ==
    /\ result = ChainFailure("Timeout getting option parameters")
    /\ ParamsReqId \in pending_requests
    /\ waited = ParamTimeout
    /\ option_params # <<>>
    /\ option_params[1].tradingClass = Ticker
    /\ option_params[1].expirations # <<>>

---------------------------------------------------------------------------
(* Claims about the bracket legs *)

Range(seq) == {seq[i] : i \in DOMAIN seq}

\* C6: a submitted child order carries an OCA group only when both a
\* stop-loss child and a take-profit child are submitted; whenever exactly
\* one child is submitted (one leg not asked for, or dropped), that child has
\* no OCA group.
C6_OcaGroupOnlyWhenBothSubmitted ==
    pc = "done" =>
        \A i \in DOMAIN children :
            children[i].ocaGroup # "" => Len(children) = 2

\* |a - b|
Distance(a, b) == IF a >= b THEN a - b ELSE b - a

\* price (cents) is the multiple of the tick nearest to rawN / rawD cents,
\* the even multiple at a tie; the tick is 5 cents when the raw price is
\* below 300 cents and 10 cents otherwise
SnappedToTick(price, rawN, rawD) ==
    LET tick == IF rawN < 300 * rawD THEN 5 ELSE 10
    IN  /\ price % tick = 0
        /\ 2 * Distance(price * rawD, rawN) <= tick * rawD
        /\ 2 * Distance(price * rawD, rawN) = tick * rawD
               => (price \div tick) % 2 = 0

\* C7: the stop price is round(raw / tick) * tick with raw = fill * (1 - pct/100),
\* the limit price the same with raw = fill * (1 + pct/100), tick = 0.05 when
\* the raw price is below 3.00 and 0.10 otherwise; fill 2.97 with pct 5 gives
\* stop 2.80 and fill 10.00 with pct 5 gives stop 9.50.
C7_LegPricesSnapToTick ==
    /\ sl_order # NoOrder =>
          /\ sl_order.orderType = "STP"
          /\ SnappedToTick(sl_order.price,
                           fill_price.n * (100 - stop_loss_pct.v),
                           fill_price.d * 100)
          /\ (fill_price = Frac(297, 1) /\ stop_loss_pct = Pct(5))
                 => sl_order.price = 280
          /\ (fill_price = Frac(1000, 1) /\ stop_loss_pct = Pct(5))
                 => sl_order.price = 950
    /\ tp_order # NoOrder =>
          /\ tp_order.orderType = "LMT"
          /\ SnappedToTick(tp_order.price,
                           fill_price.n * (100 + take_profit_pct.v),
                           fill_price.d * 100)
    /\ Range(children) \subseteq {sl_order, tp_order} \ {NoOrder}

\* the stop-loss child of a fill at 2.97 with 5 per cent has been submitted
\* at 2.80
C7_Witness ==
    /\ pc = "done"
    /\ fill_price = Frac(297, 1)
    /\ stop_loss_pct = Pct(5)
    /\ Len(children) = 1
    /\ children[1].orderType = "STP"
    /\ children[1].price = 280

\* C10: after the parent has filled, a failure while submitting the
\* stop-loss child does not prevent the computed take-profit child from being
\* submitted, and the result still reports the parent fill rather than a
\* failed order placement.
C10_ChildFailureLeavesSiblingAndFill ==
    (/\ pc = "done"
     /\ sl_order # NoOrder
     /\ tp_order # NoOrder
     /\ sl_order \notin Range(children))
        => /\ tp_order \in Range(children)
           /\ result.success

---------------------------------------------------------------------------
(* Claims about the results of the calls *)

\* C8: whatever the venue answers, and wherever the venue client raises,
\* place_order and get_option_chain_ibapi end by returning a result with a
\* boolean success and a message; no exception leaves either call.
C8_CallsAlwaysReturnResult ==
    pc = "done" =>
        /\ result.returned
        /\ result.success \in BOOLEAN
        /\ "message" \in DOMAIN result

\* place_order has returned after the venue client raised while a child of
\* the filled parent was being submitted
C8_Witness ==
    /\ pc = "done"
    /\ trade.status = "Filled"
    /\ sl_order # NoOrder
    /\ children = <<>>
    /\ result = OrderFailure("Failed to place order")

\* C9: when the market-hours predicate is false, place_order returns the
\* market-closed failure and has done nothing at the venue: no contract
\* qualification, no parent order and no child order.
C9_ClosedMarketNoVenueAction ==
    ~market_open =>
        /\ ~qualified
        /\ trade = NoTrade
        /\ children = <<>>
        /\ pc = "done" => result = OrderFailure("Market is closed")

\* place_order has returned while the market is closed
C9_Witness ==
    /\ ~market_open
    /\ pc = "done"
    /\ result.returned
    /\ ~result.success

---------------------------------------------------------------------------
(* Claims about the wait for the parent order *)

\* C11: place_order returns the timeout failure only when the parent order
\* has not reached a terminal state in the polling window: an order that is
\* terminal when the deadline is evaluated is never reported as timed out.
C11_TimeoutOnlyWhenNotTerminal ==
    (pc = "done" /\ result = OrderFailure("Order placement timeout"))
        => ~IsDone(trade)

\* the states other than Filled that the claim calls terminal
TerminalNotFilled == {"Cancelled", "ApiCancelled", "Inactive"}

\* C12: when the parent order is in a terminal state other than Filled
\* (Cancelled, Inactive) and the timeout has not passed, place_order leaves
\* the polling loop and returns a failure naming that status, with no child
\* order submitted, whatever the stop-loss and take-profit arguments.
C12_NotFilledNamesStatus ==
    [][/\ (pc = "poll" /\ trade.status \in TerminalNotFilled)
            => pc' = "check_filled"
       /\ (pc = "check_filled" /\ trade.status \in TerminalNotFilled)
            => /\ pc' = "done"
               /\ result' = OrderNotFilled(trade.status)
               /\ children' = <<>>]_vars

---------------------------------------------------------------------------
(* Claims about the fill price *)

\* the fill price found is the fraction n / d
PriceIs(n, d) == fill_price.d # 0 /\ fill_price.n * d = n * fill_price.d

\* the fills reported give a positive weighted average
FillsPositive == trade.fills # <<>> /\ TotalValue(trade.fills) > 0

InvalidFillPrice == OrderFailure("Could not determine fill price")

\* the call fails with the invalid-fill-price result, and without a child,
\* exactly when neither source gives a positive price
FailsIffNoPositivePrice ==
    pc = "done" =>
        /\ result = InvalidFillPrice
               <=> ~(FillsPositive \/ trade.avgFillPrice > 0)
        /\ result = InvalidFillPrice => children = <<>>

\* C13 (as stated): the fill price of a filled parent is the weighted average
\* of the fills when any are reported, else avgFillPrice; the call fails with
\* the invalid-fill-price result iff neither source gives a positive price.
C13_FillPriceFromFillsElseStatus ==
    pc # "fill_price" =>
        /\ trade.fills # <<>> =>
               PriceIs(TotalValue(trade.fills), TotalQuantity(trade.fills))
        /\ trade.fills = <<>> => PriceIs(trade.avgFillPrice, 1)
        /\ FailsIffNoPositivePrice

\* C13 (amended): the fill price is the weighted average of the fills when
\* any are reported and the average is not zero, else avgFillPrice; the call
\* fails with the invalid-fill-price result iff neither source gives a
\* positive price.
C13_FillPriceFromNonZeroFills ==
    pc # "fill_price" =>
        /\ (trade.fills # <<>> /\ TotalValue(trade.fills) # 0) =>
               PriceIs(TotalValue(trade.fills), TotalQuantity(trade.fills))
        /\ (trade.fills = <<>> \/ TotalValue(trade.fills) = 0) =>
               PriceIs(trade.avgFillPrice, 1)
        /\ FailsIffNoPositivePrice

\* fills at price zero were reported and the call went on with avgFillPrice
C13_Witness ==
    /\ pc = "done"
    /\ result.success
    /\ trade.fills # <<>>
    /\ TotalValue(trade.fills) = 0
    /\ PriceIs(297, 1)

---------------------------------------------------------------------------
(* Claims about malformed percentages *)

\* a percentage that was asked for and is no number or no finite number
IsMalformed(arg) == arg.kind \in {"malformed", "nan", "inf"}

WellFormed(arg) == arg.kind = "num"

\* C14: when one of the two percentages asked for is malformed (no number,
\* or a non-finite price) and the other is well-formed, only the malformed
\* leg is dropped: exactly one child, the well-formed leg, is submitted and
\* the call returns success; when both are malformed no child is submitted
\* and the call returns success.
C14_OnlyMalformedLegDropped ==
    pc = "done" =>
        /\ (IsMalformed(stop_loss_pct) /\ WellFormed(take_profit_pct)) =>
               /\ result.success
               /\ Len(children) = 1
               /\ children[1].orderType = "LMT"
        /\ (WellFormed(stop_loss_pct) /\ IsMalformed(take_profit_pct)) =>
               /\ result.success
               /\ Len(children) = 1
               /\ children[1].orderType = "STP"
        /\ (IsMalformed(stop_loss_pct) /\ IsMalformed(take_profit_pct)) =>
               /\ result.success
               /\ children = <<>>

\* the stop-loss text was "nan", the take-profit leg alone was submitted
C14_Witness ==
    /\ pc = "done"
    /\ stop_loss_pct = NotANumber
    /\ take_profit_pct = Pct(10)
    /\ Len(children) = 1
    /\ children[1].orderType = "LMT"
    /\ result.success

---------------------------------------------------------------------------
(* Claims about the failures of get_option_chain_ibapi *)

\* the call has returned otherwise than through its exception handler
ChainReturned ==
    /\ pc = "done"
    /\ result.returned
    /\ result # ChainFailure("Failed to get option chain")

\* no contract was obtained: none was reported, or the end of the contract
\* details was not received
QualificationFailed ==
    contract_details = <<>> \/ DetailsReqId \in pending_requests

InstrumentNotFound ==
    {ChainFailure("Could not find contract"),
     ChainFailure("Timeout getting contract details")}

\* C15 (as stated): the call fails with the instrument-not-found outcome
\* whenever the qualification gives zero contracts or does not complete in
\* time, whatever the state of the price subscription, the two being issued
\* concurrently.
C15_NotFoundWhateverThePrice ==
    (ChainReturned /\ QualificationFailed) => result \in InstrumentNotFound

\* C15 (amended): the qualification is requested only after a price was
\* read; once requested, the call fails with the instrument-not-found outcome
\* whenever it gives zero contracts or does not complete in time; without a
\* price the call fails with the no-price outcome and requests nothing more.
C15_NotFoundOnceRequested ==
    /\ (ChainReturned /\ DetailsReqId \in requested /\ QualificationFailed)
           => result \in InstrumentNotFound
    /\ DetailsReqId \in requested => Truthy(current_price)
    /\ (ChainReturned /\ DetailsReqId \notin requested)
           => result = ChainFailure("Could not get price")

\* the venue ended the contract details without a contract
C15_Witness ==
    /\ pc = "done"
    /\ DetailsReqId \in requested
    /\ DetailsReqId \notin pending_requests
    /\ contract_details = <<>>
    /\ result = ChainFailure("Could not find contract")

\* the parameter set the claim calls selected: the first one whose trading
\* class is the ticker, else the first one
SelectedParams ==
    LET matching == {i \in DOMAIN option_params :
                        option_params[i].tradingClass = Ticker}
        first == IF matching = {} THEN 1
                 ELSE CHOOSE i \in matching : \A j \in matching : i <= j
    IN  option_params[first]

OptionsNotSupported ==
    {ChainFailure("Does not support options"),
     ChainFailure("No expirations found")}

\* C16: after the option-parameter request completed in time, the call fails
\* with the options-not-supported outcome (success false, no rows, no
\* per-strike subscription) if no parameter set was returned or the selected
\* one has no expiration.
C16_NoParamsOrNoExpirationsFails ==
    [][(/\ pc = "choose_params"
        /\ pc' # pc
        /\ \/ option_params = <<>>
           \/ SelectedParams.expirations = <<>>)
          => /\ pc' = "done"
             /\ result' \in OptionsNotSupported
             /\ ~result'.success
             /\ result'.optionChain = <<>>
             /\ subscribed' \subseteq {PriceReqId}]_vars

\* the selected parameter set had strikes but no expiration
C16_Witness ==
    /\ pc = "done"
    /\ ParamsReqId \in requested
    /\ option_params # <<>>
    /\ result = ChainFailure("No expirations found")

---------------------------------------------------------------------------
(* Claims about the price of the underlying *)

\* the bucket of the price subscription when the price is read
PriceBucket == DictGet(option_data, PriceReqId, EmptyBucket)

Recorded(key) == key \in DOMAIN PriceBucket

\* recorded with a value that is not zero (NaN is not zero)
RecordedNonZero(key) == Recorded(key) /\ PriceBucket[key] # Num(0)

NoPriceAvailable == ChainFailure("Could not get price")

---------------------------------------------------------------------------
(* Claims about termination *)

\* C18: every blocking wait is bounded: under any schedule of the venue's
\* callbacks, one where none ever arrives included, the call eventually
\* returns.
C18_CallEventuallyReturns == <>(pc = "done")

---------------------------------------------------------------------------
(* Claims about the rows *)

\* the request ids of the call and the put of the i-th selected strike
CallId(i) == FirstOptionReqId + 2 * (i - 1)

PutId(i) == CallId(i) + 1

\* C19: once the strikes are selected, there is one row per selected strike
\* whatever ticks were received: a side whose subscription produced no tick
\* is not left out, does not abort the chain, and has mid, IV, delta and
\* theta 0.
C19_RowPerStrikeZeroWithoutTicks ==
    pc = "done" =>
        /\ result.success
        /\ Len(result.optionChain) = Len(selected_strikes)
        /\ \A i \in DOMAIN selected_strikes :
              LET row == result.optionChain[i]
              IN  /\ row.strike = selected_strikes[i]
                  /\ CallId(i) \notin DOMAIN option_data =>
                         /\ row.callMid = Num(0)
                         /\ row.callIV = Num(0)
                         /\ row.callDelta = Num(0)
                         /\ row.callTheta = Num(0)
                  /\ PutId(i) \notin DOMAIN option_data =>
                         /\ row.putMid = Num(0)
                         /\ row.putIV = Num(0)
                         /\ row.putDelta = Num(0)
                         /\ row.putTheta = Num(0)

\* two rows were returned; the first strike had quotes for its put and no
\* tick at all for its call, the second strike no tick for either side
C19_Witness ==
    /\ pc = "done"
    /\ Len(result.optionChain) = 2
    /\ CallId(1) \notin DOMAIN option_data
    /\ result.optionChain[1].callMid = Num(0)
    /\ result.optionChain[1].putMid = Num(120)
    /\ {CallId(2), PutId(2)} \cap DOMAIN option_data = {}

---------------------------------------------------------------------------
(* Claims about the order of the bracket steps *)

\* C20: a child order is submitted only after the parent order was
\* submitted, reached Filled and a positive fill price was found, and both
\* children are computed before either is submitted: a submission adds one of
\* the two computed orders and the computed orders never change afterwards.
C20_BracketStepsInOrder ==
    [][/\ children' # children =>
              /\ qualified
              /\ trade # NoTrade
              /\ trade.status = "Filled"
              /\ fill_price # NoPrice
              /\ fill_price.n > 0
              /\ fill_price.d > 0
              /\ stop_loss_pct # Unread
              /\ take_profit_pct # Unread
              /\ \E child \in {sl_order, tp_order} \ {NoOrder} :
                     children' = Append(children, child)
              /\ sl_order' = sl_order
              /\ tp_order' = tp_order
       /\ children # <<>> =>
              /\ sl_order' = sl_order
              /\ tp_order' = tp_order
              /\ fill_price' = fill_price
              /\ trade' = trade]_vars

\* both children of a filled parent have been submitted, the stop first
C20_Witness ==
    /\ pc = "done"
    /\ result.success
    /\ trade.status = "Filled"
    /\ children = <<sl_order, tp_order>>
    /\ sl_order # NoOrder
    /\ tp_order # NoOrder

---------------------------------------------------------------------------
(* Claims about the child orders *)

\* C21: when both a stop-loss and a take-profit child are submitted by one
\* call, both carry the same OCA group name, made once for that call, and
\* both have ocaType 1.
C21_BothChildrenShareOcaGroup ==
    (\E i, j \in DOMAIN children :
        children[i].orderType = "STP" /\ children[j].orderType = "LMT")
        => /\ \A i \in DOMAIN children :
                  /\ children[i].ocaGroup \in OcaGroups
                  /\ children[i].ocaType = 1
           /\ \A i, j \in DOMAIN children :
                  children[i].ocaGroup = children[j].ocaGroup

\* a stop-loss and a take-profit child were submitted and the call returned
C21_Witness ==
    /\ pc = "done"
    /\ result.success
    /\ Len(children) = 2
    /\ children[1].orderType = "STP"
    /\ children[2].orderType = "LMT"
    /\ children[1].ocaGroup = "Bracket_2"

\* C22: every child order submitted has the action opposite to the parent's
\* (SELL for a BUY parent, BUY for a SELL parent) and the parent's quantity.
C22_ChildrenOppositeSameQuantity ==
    \A i \in DOMAIN children :
        /\ action = "BUY" => children[i].action = "SELL"
        /\ action = "SELL" => children[i].action = "BUY"
        /\ children[i].totalQuantity = quantity

\* the two children of a SELL parent of two contracts were submitted
C22_Witness ==
    /\ pc = "done"
    /\ action = "SELL"
    /\ quantity = 2
    /\ Len(children) = 2
    /\ children[1].action = "BUY"
    /\ children[2].totalQuantity = 2

---------------------------------------------------------------------------
(* Claims about the position of the strike window *)

\* the position (1-based) of the strike nearest to the price, the smaller
\* strike at a tie
NearestPosition ==
    CHOOSE i \in DOMAIN all_strikes :
        \A j \in DOMAIN all_strikes :
            \/ Abs(all_strikes[i] - current_price.v)
                   < Abs(all_strikes[j] - current_price.v)
            \/ /\ Abs(all_strikes[i] - current_price.v)
                      = Abs(all_strikes[j] - current_price.v)
               /\ all_strikes[i] <= all_strikes[j]

\* the selected strikes are the strikes at positions lo..hi, highest first
IsRun(lo, hi) ==
    /\ Len(selected_strikes) = hi - lo + 1
    /\ \A k \in 1..Len(selected_strikes) :
           selected_strikes[k] = all_strikes[hi - k + 1]

\* the strikes have been selected from a non-empty list for a price that is
\* a number
WindowSelected ==
    /\ pc \notin {"select", "done"} \/ (pc = "done" /\ result.success)
    /\ all_strikes # <<>>
    /\ ~IsNaN(current_price)

\* C23: for a non-empty strike list and a price, the selected strikes are a
\* contiguous run of the ascending list that contains the strike nearest to
\* the price, the smaller strike at a tie.
C23_ContiguousRunAroundNearest ==
    WindowSelected =>
        LET near == NearestPosition
            len  == Len(selected_strikes)
        IN  \E hi \in near..Len(all_strikes) :
                /\ all_strikes[hi] = selected_strikes[1]
                /\ hi - len + 1 >= 1
                /\ hi - len + 1 <= near
                /\ IsRun(hi - len + 1, hi)

\* 13 strikes and a price at the highest: the run is the 12 highest strikes
C23_Witness ==
    /\ WindowSelected
    /\ Len(all_strikes) = 13
    /\ NearestPosition = 13
    /\ IsRun(2, 13)

---------------------------------------------------------------------------
(* Claims about the choice of the expiration and of the parameter set *)

\* the expirations that are not before today
NotPast == {expirations[i] : i \in DOMAIN expirations} \cap
           {d \in 0..10 : d >= today}

\* C25: for a non-empty ascending expiration list and today's date, the
\* chosen expiration is the smallest one that is today or later, and the
\* earliest of the list when every expiration is before today.
C25_SmallestExpirationFromToday ==
    today # 0 =>
        /\ expirations # <<>>
        /\ \E i \in DOMAIN expirations : nearest_expiry = expirations[i]
        /\ NotPast # {} =>
               /\ nearest_expiry \in NotPast
               /\ \A d \in NotPast : nearest_expiry <= d
        /\ NotPast = {} =>
               \A i \in DOMAIN expirations : nearest_expiry <= expirations[i]

\* today lies between the two expirations: the later one was chosen
C25_Witness ==
    /\ pc = "select"
    /\ today = 3
    /\ expirations = <<2, 4>>
    /\ nearest_expiry = 4

\* C26: of the parameter sets returned for the request, in their order of
\* arrival, the one used is the first whose trading class equals the ticker,
\* and the first returned one when no trading class equals it.
C26_FirstMatchingParamsInArrivalOrder ==
    [][(/\ pc = "choose_params"
        /\ pc' # pc
        /\ option_params # <<>>)
          => /\ expirations' = SelectedParams.expirations
             /\ all_strikes' = SelectedParams.strikes]_vars

\* a set of another trading class arrived first and the ticker's set second:
\* the second one, the only one with strikes, was used
C26_Witness ==
    /\ pc = "select"
    /\ Len(option_params) = 2
    /\ option_params[1].tradingClass # Ticker
    /\ option_params[1].strikes = <<>>
    /\ option_params[2].tradingClass = Ticker
    /\ all_strikes = option_params[2].strikes
    /\ all_strikes # <<>>

---------------------------------------------------------------------------
(* The four tick callbacks on the bucket of one option subscription *)

\* quotes in cents: not-a-number, the venue's -1.00 for "no quote", a price
CallbackQuotes == {NaN, Num(-100), Num(120)}

\* implied volatilities in units of 1e-5
CallbackVols == {NaN, Num(0), Num(25000)}

\* values the option computation may carry: not computed (None), NaN, a value
CallbackGreeks == {None, NaN, Num(5000)}

VenueCallbackPrice ==
    VenueTickPrice({FirstOptionReqId}, {1, 2, 4, 6}, CallbackQuotes)

VenueTickSize ==
    /\ connected
    /\ \E reqId \in {FirstOptionReqId} \cap subscribed, tickType \in {0, 8},
          size \in {Num(0), Num(10)} :
           tickSize(reqId, tickType, size)
    /\ UNCHANGED <<bridgeVars, orderVars, pc, connected, localVars, waited, venueVars, result>>

VenueTickGeneric ==
    /\ connected
    /\ \E reqId \in {FirstOptionReqId} \cap subscribed, tickType \in {13, 24},
          value \in CallbackVols :
           tickGeneric(reqId, tickType, value)
    /\ UNCHANGED <<bridgeVars, orderVars, pc, connected, localVars, waited, venueVars, result>>

VenueTickOptionComputation ==
    /\ connected
    /\ \E reqId \in {FirstOptionReqId} \cap subscribed,
          impliedVol \in CallbackVols \cup {None},
          delta \in CallbackGreeks, theta \in CallbackGreeks :
           tickOptionComputation(reqId, impliedVol, delta, theta)
    /\ UNCHANGED <<bridgeVars, orderVars, pc, connected, localVars, waited, venueVars, result>>

InitCallbacks == AtSelect(Num(5), <<4>>)

NextCallbacks ==
    \/ SelectStrikes
    \/ SubscribeStrike
    \/ VenueCallbackPrice
    \/ VenueTickSize
    \/ VenueTickGeneric
    \/ VenueTickOptionComputation

SpecCallbacks == InitCallbacks /\ [][NextCallbacks]_vars

\* a value the feed uses for "no data": NaN, not computed, or a negative
\* price or volatility
InvalidTickValue(key, value) ==
    \/ IsNaN(value)
    \/ value = None
    \/ key \in {"bid", "ask", "last", "iv"} /\ value.v < 0

\* C27: after any sequence of tickPrice, tickSize, tickGeneric and
\* tickOptionComputation callbacks no field of a bucket holds a NaN or
\* sentinel-invalid value (a tick carrying one is dropped).
C27_NoInvalidValueStored ==
    \A reqId \in DOMAIN option_data :
        \A key \in DOMAIN option_data[reqId] :
            ~InvalidTickValue(key, option_data[reqId][key])

---------------------------------------------------------------------------
(* Claims about the subscriptions and the request ids *)

\* the results of a call that failed before the strike selection
UpstreamFailures ==
    {ChainFailure("Could not get price"),
     ChainFailure("Timeout getting contract details"),
     ChainFailure("Could not find contract"),
     ChainFailure("Timeout getting option parameters"),
     ChainFailure("Does not support options"),
     ChainFailure("No expirations found")}

\* the steps of the call before the strike selection
UpstreamSteps ==
    {"connect", "req_price", "read_price", "details_clear", "details_reset",
     "details_register", "req_details", "wait_details", "check_details",
     "params_clear", "params_register", "params_reset", "req_params",
     "wait_params", "choose_params"}

OptionSubscribed == ~(subscribed \subseteq {PriceReqId})

\* C28: no call/put subscription is made in a call that fails upstream: a
\* call that returned a price, contract, option-parameter or expiration
\* failure, or that is still before the strike selection, has subscribed to
\* nothing but the price, and a call that subscribed to an option has a
\* price, a contract, a parameter set and an expiration.
C28_NoSubscriptionWhenUpstreamFails ==
    /\ (pc = "done" /\ result \in UpstreamFailures) => ~OptionSubscribed
    /\ pc \in UpstreamSteps => ~OptionSubscribed
    /\ OptionSubscribed =>
           /\ Truthy(current_price)
           /\ contract_details # <<>>
           /\ option_params # <<>>
           /\ expirations # <<>>
           /\ \E i \in DOMAIN expirations : nearest_expiry = expirations[i]

\* the option parameters timed out after the price and the contract were
\* found: the call returned with the price subscription only
C28_Witness ==
    /\ pc = "done"
    /\ result = ChainFailure("Timeout getting option parameters")
    /\ Truthy(current_price)
    /\ contract_details # <<>>
    /\ subscribed = {PriceReqId}

\* the ids subscribed for options
OptionIds == DOMAIN contracts \ {PriceReqId}

\* the ids subscribed with the given option contract
IdsOf(strike, right) ==
    {id \in OptionIds : contracts[id] = OptionContract(strike, right)}

\* how many selected strikes have been subscribed
StrikesSubscribed ==
    IF pc = "subscribe" THEN LoopIndex - 1
    ELSE IF pc = "reduce" \/ (pc = "done" /\ result.success)
    THEN Len(selected_strikes)
    ELSE 0

\* the price, details and parameter ids differ from each other and from the
\* option ids, and every strike subscribed so far has one id for its call and
\* another one for its put, shared with no other strike
IdsDistinct ==
    /\ Cardinality({PriceReqId, DetailsReqId, ParamsReqId}) = 3
    /\ OptionIds \cap {PriceReqId, DetailsReqId, ParamsReqId} = {}
    /\ PriceReqId \in DOMAIN contracts => contracts[PriceReqId] = StockContract
    /\ \A k \in 1..StrikesSubscribed :
           /\ Cardinality(IdsOf(selected_strikes[k], "C")) = 1
           /\ Cardinality(IdsOf(selected_strikes[k], "P")) = 1
    /\ StrikesSubscribed > 0 => Cardinality(OptionIds) = 2 * StrikesSubscribed

\* C29: within one call the request ids in use (price, contract details,
\* option parameters, two per selected strike) are pairwise distinct, and the
\* row of each strike is reduced from the two buckets whose ids were
\* subscribed for that strike's call and put.
C29_DistinctIdsRowsFromOwnBuckets ==
    [][/\ IdsDistinct'
       /\ (pc = "reduce" /\ Len(option_chain_data') = Len(option_chain_data) + 1)
            => LET i == Len(option_chain_data')
                   strike == selected_strikes[i]
               IN  \E c \in IdsOf(strike, "C"), p \in IdsOf(strike, "P") :
                       /\ c # p
                       /\ option_chain_data'[i] =
                             StrikeRow(strike, nearest_expiry,
                                       DictGet(option_data, c, EmptyBucket),
                                       DictGet(option_data, p, EmptyBucket))]_vars

\* two strikes were reduced while only the call of the second one had quotes
C29_Witness ==
    /\ pc = "done"
    /\ result.success
    /\ Len(result.optionChain) = 2
    /\ Cardinality(OptionIds) = 4
    /\ result.optionChain[1].callMid = Num(0)
    /\ result.optionChain[1].putMid = Num(0)
    /\ result.optionChain[2].callMid = Num(120)
    /\ result.optionChain[2].putMid = Num(0)

---------------------------------------------------------------------------
(* Claims about the order of clearing, registering and sending *)

\* the request is about to be sent: the signal is clear and the id registered
ReadyToSend(reqId) ==
    /\ ~data_ready
    /\ reqId \in pending_requests
    /\ reqId \notin requested

\* during the wait the signal is set exactly when the request's own
\* completion was processed
SignalIsCompletionOf(reqId) == data_ready <=> reqId \notin pending_requests

\* C30: for the contract-details and the option-parameter request the
\* signal is cleared and the id registered before the request is sent, so
\* under every interleaving with the callbacks the completion of the request
\* finds its id registered: the signal is set during the wait if and only if
\* that completion was processed (not lost, not left from the previous
\* request), and the call goes on only after it.
C30_CompletionNeitherLostNorStale ==
    /\ pc = "req_details" => ReadyToSend(DetailsReqId)
    /\ pc = "req_params" => ReadyToSend(ParamsReqId)
    /\ pc = "wait_details" => SignalIsCompletionOf(DetailsReqId)
    /\ pc = "wait_params" => SignalIsCompletionOf(ParamsReqId)
    /\ pc = "check_details" => DetailsReqId \notin pending_requests
    /\ pc = "choose_params" => ParamsReqId \notin pending_requests

\* the wait for the option parameters, before their completion: the signal
\* set by the completion of the details request is not seen
C30_Witness ==
    /\ pc = "wait_params"
    /\ ParamsReqId \in requested
    /\ ParamsReqId \in pending_requests
    /\ DetailsReqId \notin pending_requests
    /\ contract_details # <<>>
    /\ option_params # <<>>
    /\ ~data_ready

---------------------------------------------------------------------------
(* Claims about the end of the session *)

\* C31: on every path by which the call returns after the session was
\* connected (success, each failure result, the exception handler) the
\* session has been disconnected before the result is returned.
C31_DisconnectedOnReturn ==
    (pc = "done" /\ result.returned) => ~connected

---------------------------------------------------------------------------
(* Claims about the parent order after the timeout *)

\* the states in which an order is working at the venue and can still fill
LiveStates == {"PendingSubmit", "Submitted"}

\* C32: when place_order returns the timeout failure no child order has been
\* submitted, and the parent order has not been cancelled: it is still live
\* at the venue, where it may fill later.
C32_TimeoutLeavesParentLive ==
    (pc = "done" /\ result = OrderFailure("Order placement timeout"))
        => /\ children = <<>>
           /\ trade.status \in LiveStates

---------------------------------------------------------------------------
(* The completion-tracked requests, with errors reported by the venue *)

\* an error the venue reports for a request (200: no security definition)
\* and a market data connection message
ErrorCodes == {200, 2104}

\* an error callback that names a request sent and not yet answered
VenueError ==
    /\ connected
    /\ \E reqId \in requested \cap pending_requests, errorCode \in ErrorCodes :
           error(reqId, errorCode)
    /\ UNCHANGED <<bridgeVars, orderVars, pc, connected, localVars, waited, subscribed,
                   contracts, requested, result>>

\* the call up to the end of the wait for the option parameters
NextErrors ==
    \/ Connect
    \/ ReqPrice
    \/ ReadPrice
    \/ DetailsClear
    \/ DetailsReset
    \/ DetailsRegister
    \/ ReqDetails
    \/ WaitTick
    \/ WaitDetails
    \/ CheckDetails
    \/ ParamsClear
    \/ ParamsRegister
    \/ ParamsReset
    \/ ReqParams
    \/ WaitParams
    \/ VenueUnderlyingTick
    \/ VenueContractDetails
    \/ VenueContractDetailsEnd
    \/ VenueOptionParameter
    \/ VenueOptionParameterEnd
    \/ VenueError

SpecErrors == InitChain /\ [][NextErrors]_vars

\* the id the foreground is waiting for
WaitedId == IF pc = "wait_details" THEN DetailsReqId ELSE ParamsReqId

\* C33: an error callback that carries the id of a pending request neither
\* removes the id from pending_requests nor sets the completion signal; a
\* waiting caller is released only by the matching End callback or by its
\* timeout.
C33_ErrorDoesNotRelease ==
    [][/\ error_log' # error_log
            => /\ pending_requests' = pending_requests
               /\ data_ready' = data_ready
               /\ pc' = pc
       /\ (pc \in {"wait_details", "wait_params"} /\ pc' # pc)
            => \/ /\ data_ready
                  /\ WaitedId \notin pending_requests
                  /\ pc' # "done"
               \/ /\ ~data_ready
                  /\ WaitedId \in pending_requests
                  /\ waited = ParamTimeout
                  /\ pc' = "done"
                  /\ ~result'.success
       /\ (pc \in {"wait_details", "wait_params"} /\ ~data_ready /\ data_ready')
            => /\ WaitedId \in pending_requests
               /\ WaitedId \notin pending_requests'
               /\ error_log' = error_log]_vars

\* the error for the option-parameter request was printed and the caller is
\* still waiting, its id registered and the signal clear
C33_Witness ==
    /\ pc = "wait_params"
    /\ <<ParamsReqId, 200>> \in error_log
    /\ ParamsReqId \in pending_requests
    /\ ~data_ready
    /\ waited > 0

---------------------------------------------------------------------------
(* handle_command: one decoded command, its dispatch and its response *)

\* the command types handle_command knows
KnownTypes ==
    {"place_order", "get_positions", "get_balance", "close_position",
     "get_daily_pnl", "close_all_positions", "get_ticker_price",
     "validate_ticker"}

\* the types of the commands handled: the known ones, an unknown one and a
\* command without type ("" stands for None)
CommandTypes == KnownTypes \cup {"get_option_chain", ""}

\* the requestId of a command: absent (None) or a number
RequestIds == {None, Num(7), Num(8)}

\* the data of a command: absent, a dict with every key the handler reads,
\* a dict without them, or a value that is not a dict
DataShapes == {"absent", "complete", "incomplete", "not_a_dict"}

Commands ==
    [type : CommandTypes, requestId : RequestIds, data : DataShapes]

\* the argument extraction raises: data['action'] and data['symbol'] need the
\* key, every use of data needs a dict (an absent data is {})
ExtractionRaises(cmd_type, data) ==
    IF cmd_type \in {"place_order", "close_position"} THEN data # "complete"
    ELSE IF cmd_type \in {"get_ticker_price", "validate_ticker"}
    THEN data = "not_a_dict"
    ELSE FALSE

\* the result dicts of the handlers
HandlerResults ==
    {[success |-> TRUE, message |-> "done"],
     [success |-> FALSE, message |-> "failed"]}

UnknownCommand == [success |-> FALSE, message |-> "Unknown command"]

CommandError == [success |-> FALSE, message |-> "Error"]

\* mutant: the response is printed without the request id
send_response_NoId(out, response, request_id) == Append(out, response)

\* stdout after send_response: the request id is added unless it is None
send_response(out, response, request_id) ==
    Append(out,
           IF request_id # None
           THEN [key \in DOMAIN response \cup {"requestId"} |->
                    IF key = "requestId" THEN request_id ELSE response[key]]
           ELSE response)

\* the branch of the command type: the arguments are extracted and the
\* handler is called; either may raise
Dispatch ==
    /\ pc = "handle"
    /\ IF command.type \notin KnownTypes
       THEN /\ result' = UnknownCommand
            /\ pc' = "respond"
       ELSE IF ExtractionRaises(command.type, command.data)
       THEN /\ pc' = "command_except"
            /\ UNCHANGED result
       ELSE \/ /\ \E r \in HandlerResults : result' = r
               /\ pc' = "respond"
            \/ /\ pc' = "command_except"
               /\ UNCHANGED result
    /\ UNCHANGED <<bridgeVars, orderVars, connected, appVars, localVars, waited,
                   venueVars>>

\* send_response(result, request_id) of the branch
SendResult ==
    /\ pc = "respond"
    /\ stdout' = send_response(stdout, result, command.requestId)
    /\ pc' = "done"
    /\ UNCHANGED <<command, result, orderVars, connected, appVars, localVars,
                   waited, venueVars>>

\* except Exception: the error response
CommandExcept ==
    /\ pc = "command_except"
    /\ stdout' = send_response(stdout, CommandError, command.requestId)
    /\ pc' = "done"
    /\ UNCHANGED <<command, result, orderVars, connected, appVars, localVars,
                   waited, venueVars>>

InitCommands ==
    /\ pc = "handle"
    /\ result = NoResult
    /\ ChainIdle
    /\ OrderIdle
    /\ command \in Commands
    /\ stdout = <<>>

NextCommands ==
    \/ Dispatch
    \/ SendResult
    \/ CommandExcept

SpecCommands == InitCommands /\ [][NextCommands]_vars

\* the response carries the request id of the command, and no request id
\* when the command has none
CarriesRequestId(response) ==
    IF command.requestId = None THEN "requestId" \notin DOMAIN response
    ELSE /\ "requestId" \in DOMAIN response
         /\ response["requestId"] = command.requestId

\* C34: for every decoded command passed to handle_command (known type,
\* unknown type, or a known type whose handler or argument extraction
\* raises) exactly one response is sent, and it carries the command's
\* requestId.
C34_ExactlyOneResponseWithRequestId ==
    /\ pc # "done" => stdout = <<>>
    /\ pc = "done" =>
           /\ Len(stdout) = 1
           /\ CarriesRequestId(stdout[1])
           /\ stdout[1]["success"] \in BOOLEAN

\* a place_order command without the keys of the order was answered with the
\* error response under its request id
C34_Witness ==
    /\ pc = "done"
    /\ command.type = "place_order"
    /\ command.data = "incomplete"
    /\ command.requestId = Num(7)
    /\ Len(stdout) = 1
    /\ stdout[1]["message"] = "Error"
    /\ stdout[1]["requestId"] = Num(7)

============================================================================
